---- MODULE Spec2Model ----
(***************************************************************************)
(* Model of the DCR OAuth broker of KR365:                                 *)
(*   src/modules/dcr_oauth/dcr_service.py   (DCRService)                   *)
(*   src/modules/dcr_oauth/azure_config.py  (config loader)                *)
(*   src/modules/dcr_oauth/auth_middleware.py (Bearer middleware)          *)
(*   src/modules/mail_query_MCP/implementations/dcr_endpoints.py           *)
(*                                                                         *)
(* The persisted store is one SQLite file opened in autocommit mode        *)
(* (db_service.py:77-82): every SQL statement is atomic and durable on its *)
(* own, and nothing groups the statements of one method.                   *)
(*                                                                         *)
(* Values: every identifier (client id, secret, code, token, object id,    *)
(* redirect uri) is a positive integer; NULL (Python None / SQL NULL /     *)
(* empty string) is 0.  Time is an integer number of clock ticks.          *)
(***************************************************************************)
EXTENDS Integers, FiniteSets, Sequences, TLC

NULL == 0

\* ---- bounds of the model ------------------------------------------------
\* clock resolution: ticks per second (datetime.now has sub-second
\* resolution, SQLite CURRENT_TIMESTAMP and datetime() have whole seconds)
TicksPerSecond == 2
\* the clock is sampled at 0..MaxBase ticks after each interesting instant
MaxBase == 2
\* number of values secrets.token_urlsafe hands out in one behaviour
MaxVal == 6

\* ---- program constants --------------------------------------------------
CodeTtlMinutes == 10
ExpiresIn == 3600
RefreshTtlDays == 30

CodeTtl == CodeTtlMinutes * 60 * TicksPerSecond
BearerTtl == ExpiresIn * TicksPerSecond
RefreshTtl == RefreshTtlDays * 86400 * TicksPerSecond

\* ---- input domains ------------------------------------------------------
Redirects == {1, 2}
ObjectIds == {1, 2}
Sessions == {1}
Methods == {"S256", "plain"}
\* verifiers a caller may present: two raw verifiers and the S256 image of
\* the first one (a caller replaying the challenge as the verifier)
HashShift == 10
Sha256B64(v) == v + HashShift
Verifiers == {1, 2, Sha256B64(1)}
Challenges == {1, Sha256B64(1), Sha256B64(2)}

\* the instants the clock is sampled at: up to MaxBase ticks after an offset
Around(offsets) == {k + b : k \in offsets, b \in 0..MaxBase}

\* whole seconds of a tick count (SQLite CURRENT_TIMESTAMP, datetime())
Sec(t) == t \div TicksPerSecond

VARIABLES
    now,              \* wall clock, in ticks
    nextval,          \* next value secrets.token_urlsafe returns
    svc,              \* DCRService fields azure_application_id, ... (in memory)
    dcr_azure_app,    \* table dcr_azure_app: set of rows
    dcr_clients,      \* table dcr_clients: set of rows
    dcr_tokens,       \* table dcr_tokens: set of rows
    dcr_azure_users,  \* table dcr_azure_users: set of rows, keyed by object_id
    env,              \* os.environ: DCR_AZURE_CLIENT_ID, ..._SECRET, ..._TENANT_ID, DCR_OAUTH_REDIRECT_URI
    ret,              \* what the last call returned
    redeemed,         \* history: argument tuples of successful redeems
    twice,            \* history: codes redeemed successfully more than once
    procs,            \* statement-level executions in flight (other server processes)
    fetch,            \* the profile fetch of an upstream callback in flight
    accounts,         \* table accounts: user_id, is_admin, is_active
    account_delegations,  \* table account_delegations: set of rows
    token_share_manager   \* TokenShareManager: _token_map and _service_tokens

vars == <<now, nextval, svc, dcr_azure_app, dcr_clients, dcr_tokens,
          dcr_azure_users, env, ret, redeemed, twice, procs, fetch,
          accounts, account_delegations, token_share_manager>>

\* ---- the credential codec (AccountCryptoHelpers, external) ---------------
\* account_encrypt_sensitive_data / account_decrypt_sensitive_data: a stored
\* ciphertext is never equal to a plaintext; decrypting gives the plaintext back
Encrypt(x) == [enc |-> TRUE, v |-> x]
Plain(x) == [enc |-> FALSE, v |-> x]
Decrypt(e) == e.v

\* a returned value: the call (op), its arguments (arg, client, redirect,
\* arg2), its result (out, http, hdr, rclient, roid), whether the same call
\* had succeeded before (was) and, in before, for load_azure_config the
\* values of the Bearer and refresh tokens that were active when it was
\* called, for a call that obtained upstream tokens those tokens
NoRet == [op |-> "none", arg |-> NULL, client |-> NULL, redirect |-> NULL,
          arg2 |-> NULL, out |-> "", rclient |-> NULL, roid |-> NULL,
          http |-> 0, hdr |-> FALSE, was |-> FALSE, before |-> {},
          secret |-> NULL]

\* ---- rows of dcr_tokens --------------------------------------------------
\* metadata of an authorization code is kept in the fields redirect,
\* challenge, method (create_authorization_code) and az_access, az_refresh,
\* az_uid (azure_tokens / azure_user_info, written by the upstream callback);
\* Bearer and refresh rows are inserted without metadata.
CodeRow(code, client, t, redirect, challenge, method) ==
    [value |-> Plain(code), client |-> client, type |-> "authorization_code",
     oid |-> NULL, exp |-> t + CodeTtl, status |-> "active",
     redirect |-> redirect,
     challenge |-> challenge,
     method |-> IF challenge # NULL
                   THEN (IF method # "none" THEN method ELSE "plain")
                   ELSE "none",
     az_access |-> NULL, az_refresh |-> NULL, az_uid |-> NULL]

TokenRow(tok, client, type, oid, exp) ==
    [value |-> Encrypt(tok), client |-> client, type |-> type,
     oid |-> oid, exp |-> exp, status |-> "active",
     redirect |-> NULL, challenge |-> NULL, method |-> "none",
     az_access |-> NULL, az_refresh |-> NULL, az_uid |-> NULL]

\* "WHERE dcr_token_value = ?" with a plaintext parameter
ValueIs(row, x) == row.value = Plain(x)

\* "expires_at > CURRENT_TIMESTAMP": expires_at is the text of a Python
\* datetime ("YYYY-MM-DD HH:MM:SS.ffffff+00:00"), CURRENT_TIMESTAMP is
\* "YYYY-MM-DD HH:MM:SS"; SQLite compares the two as text, so a row whose
\* expiry lies in the current second still compares greater.
SqlNotExpired(exp, t) == Sec(exp) >= Sec(t)

\* ---- PKCE (RFC 7636) -----------------------------------------------------
\* pkce_support.generate_code_challenge; "unsupported" stands for the
\* ValueError it raises
generate_code_challenge(verifier, method) ==
    IF method = "plain" THEN [raised |-> FALSE, v |-> verifier]
    ELSE IF method = "S256" THEN [raised |-> FALSE, v |-> Sha256B64(verifier)]
    ELSE [raised |-> TRUE, v |-> NULL]

\* pkce_support.verify_code_verifier: an exception gives False
verify_code_verifier(verifier, challenge, method) ==
    /\ ~generate_code_challenge(verifier, method).raised
    /\ generate_code_challenge(verifier, method).v = challenge

\* the helper DCRService._verify_pkce delegates to (modules/dcr_oauth/pkce.py):
\* S256: base64url(sha256(verifier)) == challenge; plain: verifier == challenge
verify_pkce(code_verifier, code_challenge, method) ==
    IF method = "S256" THEN Sha256B64(code_verifier) = code_challenge
    ELSE IF method = "plain" THEN code_verifier = code_challenge
    ELSE FALSE

\* ---- DCRService.create_authorization_code -------------------------------
\* an issuance that keeps the older codes of the client
create_authorization_code_KeepsOld(tokens, t, code, dcr_client_id, redirect_uri, code_challenge, code_challenge_method) ==
    tokens \cup {CodeRow(code, dcr_client_id, t, redirect_uri,
                         code_challenge, code_challenge_method)}

create_authorization_code(tokens, t, code, dcr_client_id, redirect_uri, code_challenge, code_challenge_method) ==
    LET kept == {r \in tokens :
                   ~(r.client = dcr_client_id /\ r.type = "authorization_code")}
    IN kept \cup {CodeRow(code, dcr_client_id, t, redirect_uri,
                          code_challenge, code_challenge_method)}

MarkExpired_Skipped(tokens, code) == tokens

\* "UPDATE dcr_tokens SET dcr_status = 'expired' WHERE dcr_token_value = ?"
MarkExpired(tokens, code) ==
    {IF ValueIs(r, code) THEN [r EXCEPT !.status = "expired"] ELSE r : r \in tokens}

\* the row the SELECT of verify_authorization_code returns (dcr_token_value
\* is the primary key: at most one row)
CodeRows(tokens, code) ==
    {r \in tokens : ValueIs(r, code) /\ r.type = "authorization_code"}

CodeVerdict_NoPkce(row, t, dcr_client_id, redirect_uri, code_verifier) ==
    IF row.client # dcr_client_id THEN "ClientMismatch"
    ELSE IF row.status # "active" THEN "AlreadyUsed"
    ELSE IF row.exp < t THEN "Expired"
    ELSE IF redirect_uri # NULL /\ row.redirect # redirect_uri THEN "RedirectMismatch"
    ELSE "ok"

CodeVerdict_NoRedirect(row, t, dcr_client_id, redirect_uri, code_verifier) ==
    IF row.client # dcr_client_id THEN "ClientMismatch"
    ELSE IF row.status # "active" THEN "AlreadyUsed"
    ELSE IF row.exp < t THEN "Expired"
    ELSE IF row.challenge # NULL /\ code_verifier = NULL THEN "PKCERequired"
    ELSE IF row.challenge # NULL
            /\ ~verify_pkce(code_verifier, row.challenge, row.method)
         THEN "PKCEFailed"
    ELSE "ok"

CodeVerdict_NoExpiry(row, t, dcr_client_id, redirect_uri, code_verifier) ==
    IF row.client # dcr_client_id THEN "ClientMismatch"
    ELSE IF row.status # "active" THEN "AlreadyUsed"
    ELSE IF redirect_uri # NULL /\ row.redirect # redirect_uri THEN "RedirectMismatch"
    ELSE IF row.challenge # NULL /\ code_verifier = NULL THEN "PKCERequired"
    ELSE IF row.challenge # NULL
            /\ ~verify_pkce(code_verifier, row.challenge, row.method)
         THEN "PKCEFailed"
    ELSE "ok"

\* the checks of verify_authorization_code on the row it read, in order;
\* the names are those of the failure it logs
CodeVerdict(row, t, dcr_client_id, redirect_uri, code_verifier) ==
    IF row.client # dcr_client_id THEN "ClientMismatch"
    ELSE IF row.status # "active" THEN "AlreadyUsed"
    ELSE IF row.exp < t THEN "Expired"
    ELSE IF redirect_uri # NULL /\ row.redirect # redirect_uri THEN "RedirectMismatch"
    ELSE IF row.challenge # NULL /\ code_verifier = NULL THEN "PKCERequired"
    ELSE IF row.challenge # NULL
            /\ ~verify_pkce(code_verifier, row.challenge, row.method)
         THEN "PKCEFailed"
    ELSE "ok"

\* ---- DCRService.verify_authorization_code -------------------------------
\* a redeem that marks the code expired whenever it reads its row
verify_authorization_code_MarksAlways(tokens, t, code, dcr_client_id, redirect_uri, code_verifier) ==
    IF CodeRows(tokens, code) = {}
    THEN [out |-> "NotFound", oid |-> NULL, tokens |-> tokens]
    ELSE LET row == CHOOSE r \in CodeRows(tokens, code) : TRUE
             v == CodeVerdict(row, t, dcr_client_id, redirect_uri, code_verifier)
         IN [out |-> v,
             oid |-> IF v = "ok" THEN row.oid ELSE NULL,
             tokens |-> MarkExpired(tokens, code)]

\* result: the verdict, the object id it returns and the table afterwards
verify_authorization_code(tokens, t, code, dcr_client_id, redirect_uri, code_verifier) ==
    IF CodeRows(tokens, code) = {}
    THEN [out |-> "NotFound", oid |-> NULL, tokens |-> tokens]
    ELSE LET row == CHOOSE r \in CodeRows(tokens, code) : TRUE
             v == CodeVerdict(row, t, dcr_client_id, redirect_uri, code_verifier)
         IN [out |-> v,
             oid |-> IF v = "ok" THEN row.oid ELSE NULL,
             tokens |-> IF v \in {"ok", "Expired"}
                        THEN MarkExpired(tokens, code) ELSE tokens]

\* ---- DCRService.store_tokens, one SQL statement at a time ----------------
\* what the upstream token endpoint returned
AzTokens(access_token, refresh_token) ==
    [access_token |-> access_token, refresh_token |-> refresh_token]

\* an INSERT that leaves the row of the identity in place
UpsertAzureUser_Insert(users, app, azure_object_id, azure_access_token, azure_refresh_token) ==
    IF azure_object_id = NULL THEN users
    ELSE users \cup {[object_id |-> azure_object_id, application_id |-> app,
                      access_token |-> azure_access_token,
                      refresh_token |-> azure_refresh_token]}

\* 1) INSERT OR REPLACE INTO dcr_azure_users (skipped when azure_object_id is falsy)
UpsertAzureUser(users, app, azure_object_id, azure_access_token, azure_refresh_token) ==
    IF azure_object_id = NULL THEN users
    ELSE {u \in users : u.object_id # azure_object_id}
         \cup {[object_id |-> azure_object_id, application_id |-> app,
                access_token |-> azure_access_token,
                refresh_token |-> azure_refresh_token]}

RevokeBearer_Skipped(tokens, dcr_client_id, azure_object_id) == tokens

\* an UPDATE that sets the Bearer rows of the pair active
RevokeBearer_Activates(tokens, dcr_client_id, azure_object_id) ==
    {IF r.client = dcr_client_id /\ r.oid = azure_object_id /\ r.type = "Bearer"
     THEN [r EXCEPT !.status = "active"] ELSE r : r \in tokens}

\* 2) UPDATE ... SET dcr_status = 'revoked' WHERE dcr_client_id = ? AND
\*    azure_object_id = ? AND dcr_token_type = 'Bearer' AND dcr_status = 'active'
\*    (a NULL parameter equals no row)
RevokeBearer(tokens, dcr_client_id, azure_object_id) ==
    {IF r.client = dcr_client_id /\ azure_object_id # NULL /\ r.oid = azure_object_id
        /\ r.type = "Bearer" /\ r.status = "active"
     THEN [r EXCEPT !.status = "revoked"] ELSE r : r \in tokens}

RevokeRefresh_Skipped(tokens, dcr_client_id) == tokens

\* 4a) UPDATE ... SET dcr_status = 'revoked' WHERE dcr_client_id = ? AND
\*     dcr_token_type = 'refresh' AND dcr_status = 'active'
RevokeRefresh(tokens, dcr_client_id) ==
    {IF r.client = dcr_client_id /\ r.type = "refresh" /\ r.status = "active"
     THEN [r EXCEPT !.status = "revoked"] ELSE r : r \in tokens}

\* 3) INSERT INTO dcr_tokens (... 'Bearer', ..., 'active')
InsertBearer(tokens, t, dcr_client_id, dcr_access_token, expires_in, azure_object_id) ==
    tokens \cup {TokenRow(dcr_access_token, dcr_client_id, "Bearer",
                          azure_object_id, t + expires_in * TicksPerSecond)}

\* 4b) INSERT INTO dcr_tokens (... 'refresh', ..., 'active'), 30 days
InsertRefresh(tokens, t, dcr_client_id, dcr_refresh_token, azure_object_id) ==
    tokens \cup {TokenRow(dcr_refresh_token, dcr_client_id, "refresh",
                          azure_object_id, t + RefreshTtl)}

\* the statements 2), 3), 4a), 4b) run one after the other
store_tokens(tokens, t, dcr_client_id, dcr_access_token, dcr_refresh_token, expires_in, azure_object_id) ==
    LET t2 == RevokeBearer(tokens, dcr_client_id, azure_object_id)
        t3 == InsertBearer(t2, t, dcr_client_id, dcr_access_token, expires_in,
                           azure_object_id)
    IN IF dcr_refresh_token = NULL THEN t3
       ELSE InsertRefresh(RevokeRefresh(t3, dcr_client_id), t, dcr_client_id,
                          dcr_refresh_token, azure_object_id)

\* verify_bearer_token whose SELECT has no dcr_token_type = 'Bearer'
BearerMatches_AnyType(tokens, t, token) ==
    {r \in tokens : r.status = "active"
                    /\ SqlNotExpired(r.exp, t) /\ Decrypt(r.value) = token}

\* ---- DCRService.verify_bearer_token -------------------------------------
\* the rows the SELECT returns, then decrypt-and-compare; token values are
\* minted by secrets.token_urlsafe, so at most one row can match
BearerMatches(tokens, t, token) ==
    {r \in tokens : r.type = "Bearer" /\ r.status = "active"
                    /\ SqlNotExpired(r.exp, t) /\ Decrypt(r.value) = token}

verify_bearer_token(tokens, t, token) ==
    IF BearerMatches(tokens, t, token) = {}
    THEN [ok |-> FALSE, client |-> NULL, oid |-> NULL]
    ELSE LET r == CHOOSE x \in BearerMatches(tokens, t, token) : TRUE
         IN [ok |-> TRUE, client |-> r.client, oid |-> r.oid]

\* ---- DCRService.__init__ (DCR_ALLOWED_DOMAINS) and is_user_allowed ---------
\* a piece of text is a name in some letter case, possibly with whitespace
\* around it; str.lower() and str.strip() are what changes them
Text(name, upper, pad) == [name |-> name, upper |-> upper, pad |-> pad]
Lower(t) == [t EXCEPT !.upper = FALSE]
Strip(t) == [t EXCEPT !.pad = FALSE]
IsBlank(t) == t.name = ""

\* DCR_ALLOWED_DOMAINS is a comma-separated list, given as the sequence of
\* its entries: [d.strip().lower() for d in s.split(",") if d.strip()]
ParseAllowedDomains(entries) ==
    {Lower(Strip(entries[i])) : i \in {j \in 1..Len(entries) : ~IsBlank(entries[j])}}

\* an email is given as the sequence of the pieces that follow each "@"
\* (none when the text has no "@"); whitespace at the end of the text is
\* whitespace of its last piece
StripEmail(parts) ==
    [i \in 1..Len(parts) |-> IF i = Len(parts) THEN Strip(parts[i]) ELSE parts[i]]
LowerEmail(parts) == [i \in 1..Len(parts) |-> Lower(parts[i])]

\* is_user_allowed comparing the domain as it was written
is_user_allowed_CaseSensitive(allowed_domains, user_email) ==
    IF allowed_domains = {} THEN TRUE
    ELSE IF Len(user_email) = 0 THEN FALSE
    ELSE StripEmail(user_email)[1] \in allowed_domains

is_user_allowed(allowed_domains, user_email) ==
    IF allowed_domains = {} THEN TRUE
    ELSE LET user_email_lower == StripEmail(LowerEmail(user_email))
         IN IF Len(user_email_lower) = 0 THEN FALSE
            ELSE user_email_lower[1] \in allowed_domains

\* ---- infra/core/auth_helpers.py ------------------------------------------
\* rows of accounts: user_id, is_admin (0 or 1), is_active; rows of
\* account_delegations: delegator_user_id, delegate_user_id, is_active (0 or
\* 1), expires_at (NULL or an instant); db_ok is whether the queries run or
\* raise (the except clause returns [])
AdminRows(accts, user_id) == {a \in accts : a.user_id = user_id /\ a.is_admin = 1}

ActiveDelegations_NoExpiry(delegs, t, user_id) ==
    {d \in delegs : d.delegate_user_id = user_id /\ d.is_active = 1}

\* WHERE delegate_user_id = ? AND is_active = 1
\*   AND (expires_at IS NULL OR expires_at > ?)
ActiveDelegations(delegs, t, user_id) ==
    {d \in delegs : /\ d.delegate_user_id = user_id
                    /\ d.is_active = 1
                    /\ (d.expires_at = NULL \/ d.expires_at > t)}

get_delegated_user_ids(accts, delegs, t, user_id, db_ok) ==
    IF ~db_ok THEN {}
    ELSE IF AdminRows(accts, user_id) # {}
    THEN {a.user_id : a \in {x \in accts : x.is_active /\ x.user_id # user_id}}
    ELSE {d.delegator_user_id : d \in ActiveDelegations(delegs, t, user_id)}

is_user_accessible(accts, delegs, t, authenticated_user_id, target_user_id, db_ok) ==
    \/ authenticated_user_id = target_user_id
    \/ target_user_id \in get_delegated_user_ids(accts, delegs, t,
                                                 authenticated_user_id, db_ok)

\* get_authenticated_user_id returning the requested user whenever one is given
get_authenticated_user_id_Trusting(accts, delegs, t, param_user_id, authenticated_user_id, db_ok) ==
    {[out |-> "", user |-> IF param_user_id # NULL THEN param_user_id
                           ELSE authenticated_user_id]}

\* the results the call can have; without an authenticated user and
\* without a user_id argument it returns any active account (LIMIT 1) or
\* None, and raises when the query raises
get_authenticated_user_id(accts, delegs, t, param_user_id, authenticated_user_id, db_ok) ==
    IF authenticated_user_id # NULL
    THEN IF param_user_id = NULL \/ param_user_id = authenticated_user_id
         THEN {[out |-> "", user |-> authenticated_user_id]}
         ELSE IF is_user_accessible(accts, delegs, t, authenticated_user_id,
                                    param_user_id, db_ok)
         THEN {[out |-> "", user |-> param_user_id]}
         ELSE {[out |-> "", user |-> authenticated_user_id]}
    ELSE IF param_user_id # NULL THEN {[out |-> "", user |-> param_user_id]}
    ELSE IF ~db_ok THEN {[out |-> "raise", user |-> NULL]}
    ELSE IF {a \in accts : a.is_active} = {} THEN {[out |-> "", user |-> NULL]}
    ELSE {[out |-> "", user |-> a.user_id] : a \in {x \in accts : x.is_active}}

\* ---- DCRService.get_client / verify_client_credentials ------------------
ClientRows(clients, dcr_client_id) == {c \in clients : c.id = dcr_client_id}

get_client(clients, dcr_client_id) ==
    IF ClientRows(clients, dcr_client_id) = {} THEN NULL
    ELSE (CHOOSE c \in ClientRows(clients, dcr_client_id) : TRUE).id

\* a client_secret holding a character outside ASCII, which register_client
\* (secrets.token_urlsafe) never issues
NonAscii == -2

\* secrets.compare_digest(stored, presented) raises TypeError
CompareDigestRaises(clients, dcr_client_id, dcr_client_secret) ==
    ClientRows(clients, dcr_client_id) # {} /\ dcr_client_secret = NonAscii

\* verify_client_credentials that only looks the client up
verify_client_credentials_AnySecret(clients, dcr_client_id, dcr_client_secret) ==
    ClientRows(clients, dcr_client_id) # {}

verify_client_credentials(clients, dcr_client_id, dcr_client_secret) ==
    \E c \in ClientRows(clients, dcr_client_id) : Decrypt(c.secret) = dcr_client_secret

\* ---- DCRService.verify_refresh_token ------------------------------------
RefreshMatches(tokens, t, token) ==
    {r \in tokens : r.type = "refresh" /\ r.status = "active"
                    /\ SqlNotExpired(r.exp, t) /\ Decrypt(r.value) = token}

\* verify_refresh_token without the comparison of the stored client id
verify_refresh_token_AnyClient(tokens, clients, t, refresh_token, dcr_client_id) ==
    IF RefreshMatches(tokens, t, refresh_token) = {}
    THEN [out |-> "NoMatch", oid |-> NULL]
    ELSE LET r == CHOOSE x \in RefreshMatches(tokens, t, refresh_token) : TRUE
         IN IF r.oid = NULL THEN [out |-> "NoObjectId", oid |-> NULL]
            ELSE IF get_client(clients, dcr_client_id) = NULL
                 THEN [out |-> "Error", oid |-> NULL]
            ELSE [out |-> "ok", oid |-> r.oid]

\* refresh rows carry no metadata, so the scope is read from the client row:
\* get_client returning None raises inside the loop, the except clause
\* continues and the call ends with None
verify_refresh_token(tokens, clients, t, refresh_token, dcr_client_id) ==
    IF RefreshMatches(tokens, t, refresh_token) = {}
    THEN [out |-> "NoMatch", oid |-> NULL]
    ELSE LET r == CHOOSE x \in RefreshMatches(tokens, t, refresh_token) : TRUE
         IN IF r.client # dcr_client_id THEN [out |-> "ClientMismatch", oid |-> NULL]
            ELSE IF r.oid = NULL THEN [out |-> "NoObjectId", oid |-> NULL]
            ELSE IF get_client(clients, dcr_client_id) = NULL
                 THEN [out |-> "Error", oid |-> NULL]
            ELSE [out |-> "ok", oid |-> r.oid]

\* ---- DCRService.register_client -----------------------------------------
\* redirect_uris of a registration request is a JSON list, written here as
\* its first element r, or a bare JSON string r, written Bare(r); the column
\* dcr_redirect_uris holds json.dumps of either
BareShift == 20
Bare(r) == r + BareShift
IsBare(redirect_uris) == redirect_uris > BareShift

\* "redirect_uris[0] if isinstance(redirect_uris, list) else redirect_uris"
PrimaryRedirect(redirect_uris) ==
    IF IsBare(redirect_uris) THEN redirect_uris - BareShift ELSE redirect_uris

\* json_extract(dcr_redirect_uris, '$[0]'): the first element of a stored list,
\* NULL for a stored string
JsonFirst(stored) == IF IsBare(stored) THEN NULL ELSE stored

ClientRow(id, secret, redirect, app, session, t) ==
    [id |-> id, secret |-> Encrypt(secret), redirect |-> redirect, app |-> app,
     oid |-> NULL, session |-> session, created |-> Sec(t), updated |-> Sec(t),
     status |-> "active"]

\* "ORDER BY updated_at DESC LIMIT 1" / "ORDER BY created_at DESC LIMIT 1":
\* the rows SQLite may return (any one of the newest)
NewestUpdated(rows) == {c \in rows : \A d \in rows : d.updated <= c.updated}
NewestCreated(rows) == {c \in rows : \A d \in rows : d.created <= c.created}

SessionClients(clients, app, session) ==
    NewestUpdated({c \in clients : c.session = session /\ c.app = app})
LinkedClients(clients, app, redirect) ==
    NewestUpdated({c \in clients : c.app = app /\ JsonFirst(c.redirect) = redirect
                                   /\ c.oid # NULL})
UnlinkedClients(clients, app, redirect) ==
    NewestCreated({c \in clients : c.app = app /\ JsonFirst(c.redirect) = redirect
                                   /\ c.oid = NULL})

\* "UPDATE dcr_clients SET mcp_session_id = ?, updated_at = CURRENT_TIMESTAMP
\*  WHERE dcr_client_id = ?" (only when a session id was given)
TouchSession(clients, id, session, t) ==
    IF session = NULL THEN clients
    ELSE {IF c.id = id THEN [c EXCEPT !.session = session, !.updated = Sec(t)] ELSE c
          : c \in clients}

\* register_client: the outcomes of one call (several when LIMIT 1 may pick
\* any of several newest rows): what is raised or returned, the table
\* afterwards and the number of values minted
RegisterFailed(clients, out) ==
    {[out |-> out, clients |-> clients, id |-> NULL, secret |-> NULL, minted |-> 0]}

RegisterReused(clients, c) ==
    [out |-> "reused", clients |-> clients, id |-> c.id,
     secret |-> Decrypt(c.secret), minted |-> 0]

\* the three reuse rules and the creation of a client
ResolveClient(clients, s, t, nv, redirect_uris, mcp_session_id) ==
    IF mcp_session_id # NULL /\ SessionClients(clients, s.app, mcp_session_id) # {}
    THEN {RegisterReused(clients, c) : c \in SessionClients(clients, s.app, mcp_session_id)}
    ELSE IF LinkedClients(clients, s.app, PrimaryRedirect(redirect_uris)) # {}
    THEN {RegisterReused(TouchSession(clients, c.id, mcp_session_id, t), c) :
             c \in LinkedClients(clients, s.app, PrimaryRedirect(redirect_uris))}
    ELSE IF UnlinkedClients(clients, s.app, PrimaryRedirect(redirect_uris)) # {}
    THEN {RegisterReused(TouchSession(clients, c.id, mcp_session_id, t), c) :
             c \in UnlinkedClients(clients, s.app, PrimaryRedirect(redirect_uris))}
    ELSE {[out |-> "created",
           clients |-> clients \cup {ClientRow(nv, nv + 1, redirect_uris, s.app,
                                               mcp_session_id, t)},
           id |-> nv, secret |-> nv + 1, minted |-> 2]}

\* a registration that checks neither the configuration nor redirect_uris
register_client_Unchecked(clients, s, t, nv, redirect_uris, mcp_session_id) ==
    ResolveClient(clients, s, t, nv, redirect_uris, mcp_session_id)

register_client(clients, s, t, nv, redirect_uris, mcp_session_id) ==
    IF s.app = NULL \/ s.secret = NULL
    THEN RegisterFailed(clients, "ConfigurationMissing")
    ELSE IF redirect_uris = NULL
    THEN RegisterFailed(clients, "RedirectUrisRequired")
    ELSE ResolveClient(clients, s, t, nv, redirect_uris, mcp_session_id)

\* ---- azure_config.load_azure_config -------------------------------------
PadShift == 100
\* _norm: (v or "").strip(); a value above PadShift is the same text with
\* surrounding whitespace
\* the empty text: a variable that is set to nothing; it is not None and it
\* is not truthy
EmptyText == -1
Truthy(v) == v # NULL /\ v # EmptyText
Norm(v) == IF v > PadShift THEN v - PadShift ELSE IF v = EmptyText THEN NULL ELSE v

Tenants == {1, 2}
CommonTenant == 1
DefaultRedirect == 2

NoSvc == [app |-> NULL, secret |-> NULL, tenant |-> NULL, redirect |-> NULL]

\* a load that leaves the tokens as they are
revoke_active_dcr_tokens_on_config_change_Skipped(tokens) == tokens

\* a revocation of every active row, whatever its type
revoke_active_dcr_tokens_on_config_change_AllKinds(tokens) ==
    {IF r.status = "active" THEN [r EXCEPT !.status = "revoked"] ELSE r : r \in tokens}

\* revoke_active_dcr_tokens_on_config_change
revoke_active_dcr_tokens_on_config_change(tokens) ==
    {IF r.status = "active" /\ r.type \in {"Bearer", "refresh"}
     THEN [r EXCEPT !.status = "revoked"] ELSE r : r \in tokens}

\* a comparison that always finds a change
ConfigChanges_Always(e, cur) == {"application_id"}

ConfigChanges(e, cur) ==
    (IF Norm(e.app) # Norm(cur.app) THEN {"application_id"} ELSE {})
    \cup (IF Norm(e.secret) # Norm(Decrypt(cur.secret)) THEN {"client_secret"} ELSE {})
    \cup (IF Norm(e.tenant) # Norm(cur.tenant) THEN {"tenant_id"} ELSE {})
    \cup (IF e.redirect # NULL /\ Norm(e.redirect) # Norm(cur.redirect)
          THEN {"redirect_uri"} ELSE {})

\* a load that takes the redirect URI of the environment for nothing
EffectiveRedirect_Fallback(env_redirect, fallback) == fallback

\* "if env_redirect: ... else: current_redirect" and
\* "env_redirect or service.config.oauth_redirect_uri"
EffectiveRedirect(env_redirect, fallback) ==
    IF Truthy(env_redirect) THEN env_redirect ELSE fallback

\* "env_redirect if env_redirect is not None else current_redirect"
OverrideRedirect(env_redirect, current_redirect) ==
    IF env_redirect # NULL THEN env_redirect ELSE current_redirect

\* save_azure_config_to_db, reached with an empty table only
save_azure_config_to_db(table, s) ==
    IF s.app = NULL \/ s.secret = NULL THEN table
    ELSE {r \in table : r.app # s.app}
         \cup {[app |-> s.app, secret |-> Encrypt(s.secret), tenant |-> s.tenant,
                redirect |-> s.redirect]}

\* result: the service fields, the table dcr_azure_app and dcr_tokens after
\* the load, and whether the persisted config was overwritten
load_azure_config(e, table, tokens) ==
    IF table # {}
    THEN LET cur == CHOOSE r \in table : TRUE
             loaded == [app |-> cur.app, secret |-> Decrypt(cur.secret),
                        tenant |-> cur.tenant,
                        redirect |-> EffectiveRedirect(e.redirect, cur.redirect)]
         IN IF e.app # NULL /\ e.secret # NULL /\ ConfigChanges(e, cur) # {}
            THEN [svc |-> [app |-> e.app, secret |-> e.secret, tenant |-> e.tenant,
                           redirect |-> OverrideRedirect(e.redirect, cur.redirect)],
                  table |-> (table \ {cur})
                            \cup {[app |-> e.app, secret |-> Encrypt(e.secret),
                                   tenant |-> e.tenant,
                                   redirect |-> OverrideRedirect(e.redirect,
                                                                 cur.redirect)]},
                  tokens |-> revoke_active_dcr_tokens_on_config_change(tokens),
                  changed |-> TRUE]
            ELSE [svc |-> loaded, table |-> table, tokens |-> tokens, changed |-> FALSE]
    ELSE LET s == [app |-> e.app, secret |-> e.secret, tenant |-> e.tenant,
                   redirect |-> EffectiveRedirect(e.redirect, DefaultRedirect)]
         IN [svc |-> s, table |-> save_azure_config_to_db(table, s),
             tokens |-> tokens, changed |-> FALSE]

\* ---- DCRService.cleanup_stale_clients -----------------------------------
CleanupHours == 24

\* cleanup_stale_clients whose second DELETE has no "dcr_client_id NOT IN
\* (SELECT ... WHERE dcr_status = 'active')"
cleanup_clients_IgnoreTokens(clients, tokens, t) ==
    LET limit == Sec(t) - CleanupHours * 3600
        afterMerged == {c \in clients : ~(c.status = "merged" /\ c.updated < limit)}
    IN {c \in afterMerged :
          ~(c.oid = NULL /\ c.status = "active" /\ c.created < limit)}

cleanup_clients(clients, tokens, t) ==
    LET limit == Sec(t) - CleanupHours * 3600
        afterMerged == {c \in clients : ~(c.status = "merged" /\ c.updated < limit)}
    IN {c \in afterMerged :
          ~(c.oid = NULL /\ c.status = "active" /\ c.created < limit
            /\ c.id \notin {r.client : r \in {x \in tokens : x.status = "active"}})}

\* "UPDATE dcr_tokens SET dcr_status = 'expired' WHERE dcr_status = 'active'
\*  AND datetime(expires_at) < datetime('now')": both sides in whole seconds
cleanup_tokens(tokens, t) ==
    {IF r.status = "active" /\ Sec(r.exp) < Sec(t)
     THEN [r EXCEPT !.status = "expired"] ELSE r : r \in tokens}

\* ---- initial state: a DCRService constructed on an empty database --------
Env0 == [app |-> 1, secret |-> 1, tenant |-> CommonTenant, redirect |-> NULL]

ProcIds == {1, 2}
Idle == [pc |-> "idle", code |-> NULL, client |-> NULL, redirect |-> NULL,
         verifier |-> NULL, out |-> "", oid |-> NULL, access |-> NULL,
         refresh |-> NULL]

\* an empty TokenShareManager
NoShare == [token_map |-> {}, service_tokens |-> {}]

\* no upstream callback is in flight
NoFetch == [pc |-> "idle", state |-> NULL, az_access |-> NULL, az_refresh |-> NULL,
            attempt |-> 0, requests |-> 0, waits |-> <<>>,
            last |-> [kind |-> "none", status |-> 0, id |-> NULL, email |-> NULL],
            http |-> 0, out |-> ""]

InitWith(e) ==
    /\ now = 0
    /\ nextval = 1
    /\ env = e
    /\ svc = load_azure_config(e, {}, {}).svc
    /\ dcr_azure_app = load_azure_config(e, {}, {}).table
    /\ dcr_clients = {}
    /\ dcr_tokens = {}
    /\ dcr_azure_users = {}
    /\ ret = NoRet
    /\ redeemed = {}
    /\ twice = {}
    /\ procs = [p \in ProcIds |-> Idle]
    /\ fetch = NoFetch
    /\ accounts = {}
    /\ account_delegations = {}
    /\ token_share_manager = NoShare

Init == InitWith(Env0)

Values == 1..MaxVal

\* ---- the clock ------------------------------------------------------------
Tick(t) ==
    /\ t > now
    /\ now' = t
    /\ ret' = [NoRet EXCEPT !.op = "tick"]
    /\ UNCHANGED <<nextval, svc, dcr_azure_app, dcr_clients, dcr_tokens,
                   dcr_azure_users, env, redeemed, twice, procs, fetch,
                   accounts, account_delegations, token_share_manager>>

\* ---- register_client(request_data, mcp_session_id) ------------------------
RegisterClient(redirect, session) ==
    /\ \E res \in register_client(dcr_clients, svc, now, nextval, redirect, session) :
          /\ nextval + res.minted - 1 <= MaxVal
          /\ dcr_clients' = res.clients
          /\ nextval' = nextval + res.minted
          /\ ret' = [NoRet EXCEPT !.op = "register_client", !.out = res.out,
                                  !.rclient = res.id, !.arg2 = res.secret,
                                  !.redirect = redirect, !.arg = session]
    /\ UNCHANGED <<now, svc, dcr_azure_app, dcr_tokens, dcr_azure_users, env,
                   redeemed, twice, procs, fetch,
                   accounts, account_delegations, token_share_manager>>

\* ---- POST /oauth/register ---------------------------------------------------
\* the body is parsed (an empty body is {}), register_client is called without
\* a session id, and any exception is answered 400 invalid_client_metadata
DcrRegister(redirect) ==
    /\ \E res \in register_client(dcr_clients, svc, now, nextval, redirect, NULL) :
          /\ nextval + res.minted - 1 <= MaxVal
          /\ dcr_clients' = res.clients
          /\ nextval' = nextval + res.minted
          /\ ret' = IF res.out \in {"reused", "created"}
                    THEN [NoRet EXCEPT !.op = "dcr_register", !.http = 201,
                                       !.out = res.out, !.rclient = res.id,
                                       !.arg2 = res.secret, !.redirect = redirect]
                    ELSE [NoRet EXCEPT !.op = "dcr_register", !.http = 400,
                                       !.out = "invalid_client_metadata",
                                       !.redirect = redirect]
    /\ UNCHANGED <<now, svc, dcr_azure_app, dcr_tokens, dcr_azure_users, env,
                   redeemed, twice, procs, fetch,
                   accounts, account_delegations, token_share_manager>>

\* ---- update_client_user(dcr_client_id, azure_object_id, email, redirect_uri) --
\* an unknown client raises ValueError; a client already carrying this
\* identity and redirect URI is returned as it is (only its display name may
\* be rewritten); otherwise the search for an existing client of the identity
\* is run, whose statement puts CROSS JOIN after WHERE: SQLite rejects it and
\* fetch_one re-raises the OperationalError before anything is written
UpdateClientUser(dcr_client_id, azure_object_id, redirect_uri) ==
    LET rows == ClientRows(dcr_clients, dcr_client_id)
        linked == \E c \in rows : c.oid = azure_object_id
                                   /\ PrimaryRedirect(c.redirect) = redirect_uri
    IN /\ ret' = [NoRet EXCEPT !.op = "update_client_user",
                               !.client = dcr_client_id, !.roid = azure_object_id,
                               !.redirect = redirect_uri,
                               !.out = IF rows = {} THEN "ValueError"
                                       ELSE IF linked THEN "linked"
                                       ELSE "OperationalError",
                               !.rclient = IF rows # {} /\ linked THEN dcr_client_id
                                           ELSE NULL]
       /\ UNCHANGED <<now, nextval, svc, dcr_azure_app, dcr_clients, dcr_tokens,
                      dcr_azure_users, env, redeemed, twice, procs, fetch,
                      accounts, account_delegations, token_share_manager>>

\* ---- GET /oauth/authorize --------------------------------------------------
OauthAuthorize(client_id, redirect_uri, code_challenge, code_challenge_method) ==
    /\ IF get_client(dcr_clients, client_id) = NULL
       THEN /\ ret' = [NoRet EXCEPT !.op = "oauth_authorize", !.client = client_id,
                                    !.http = 401, !.out = "invalid_client"]
            /\ UNCHANGED <<nextval, dcr_tokens>>
       ELSE /\ nextval <= MaxVal
            /\ dcr_tokens' = create_authorization_code(dcr_tokens, now, nextval,
                                 client_id, redirect_uri, code_challenge,
                                 code_challenge_method)
            /\ nextval' = nextval + 1
            /\ ret' = [NoRet EXCEPT !.op = "oauth_authorize", !.client = client_id,
                                    !.http = 302, !.arg = nextval]
    /\ UNCHANGED <<now, svc, dcr_azure_app, dcr_clients, dcr_azure_users, env,
                   redeemed, twice, procs, fetch,
                   accounts, account_delegations, token_share_manager>>

\* ---- GET /oauth/azure_callback ---------------------------------------------
\* upstream results: the token exchange and the profile fetch either succeed
\* or fail (every failure returns before anything is written)
AzAccessTokens == {1}
AzRefreshTokens == {NULL, 1}
CallbackOutcomes == {"ok", "failed"}

\* update_auth_code_with_object_id, then the final "UPDATE ... SET metadata = ?"
SetCodeIdentity(tokens, state, uid, az_access, az_refresh) ==
    {IF ValueIs(r, state) /\ r.type = "authorization_code"
     THEN [r EXCEPT !.oid = uid, !.az_access = az_access,
                    !.az_refresh = az_refresh, !.az_uid = uid]
     ELSE r : r \in tokens}

OauthAzureCallback(state, outcome, uid, az_access, az_refresh) ==
    /\ IF outcome = "ok"
       THEN /\ dcr_tokens' = SetCodeIdentity(dcr_tokens, state, uid, az_access, az_refresh)
            /\ ret' = [NoRet EXCEPT !.op = "oauth_azure_callback", !.arg = state,
                                    !.http = 302, !.roid = uid,
                                    !.before = {AzTokens(az_access, az_refresh)}]
       ELSE /\ UNCHANGED dcr_tokens
            /\ ret' = [NoRet EXCEPT !.op = "oauth_azure_callback", !.arg = state,
                                    !.http = 500, !.out = outcome]
    /\ UNCHANGED <<now, nextval, svc, dcr_azure_app, dcr_clients, dcr_azure_users,
                   env, redeemed, twice, procs, fetch,
                   accounts, account_delegations, token_share_manager>>

\* ---- GET /oauth/azure_callback, one await at a time -------------------------
\* the handler awaits the token exchange, each GET https://graph.microsoft.com/v1.0/me
\* and each asyncio.sleep; fetch holds the loop variables between two awaits:
\* attempt, the requests made, the delays slept (seconds) and the last response
MaxRetries == 3
RetryDelay == 1
RetryableStatuses == {429, 500, 502, 503, 504}
OtherStatuses == {401, 403}

\* what one request gives: an HTTP response (for 200, the id and the mail or
\* userPrincipalName of the body), httpx.TimeoutException, another
\* httpx.RequestError, or any other exception
NoResponse == [kind |-> "none", status |-> 0, id |-> NULL, email |-> NULL]
ProfileResponses ==
    {[NoResponse EXCEPT !.kind = "http", !.status = 200, !.id = i, !.email = e] :
        i \in {NULL, 1}, e \in {NULL, 1}}
    \cup {[NoResponse EXCEPT !.kind = "http", !.status = st] :
             st \in RetryableStatuses \cup OtherStatuses}
    \cup {[NoResponse EXCEPT !.kind = k] : k \in {"timeout", "request_error", "exception"}}

MayRetry_Always(attempt) == TRUE

\* if attempt < max_retries - 1
MayRetry(attempt) == attempt < MaxRetries - 1

ProfileComplete_Unchecked(resp) == TRUE

\* if not azure_object_id or not user_email: return ... 500
ProfileComplete(resp) == resp.id # NULL /\ resp.email # NULL

Retry == [next |-> "sleep", http |-> 0, out |-> ""]
Fail(http, out) == [next |-> "done", http |-> http, out |-> out]

\* the body of the retry loop for one response
ProfileVerdict(attempt, resp) ==
    IF resp.kind = "http" /\ resp.status = 200
    THEN IF ProfileComplete(resp)
         THEN [next |-> "done", http |-> 302, out |-> ""]
         ELSE Fail(500, "user_info_incomplete")
    ELSE IF resp.kind = "http" /\ resp.status \in RetryableStatuses
    THEN IF MayRetry(attempt) THEN Retry ELSE Fail(500, "graph_api_error")
    ELSE IF resp.kind = "http" THEN Fail(500, "graph_api_error")
    ELSE IF resp.kind = "timeout"
    THEN IF MayRetry(attempt) THEN Retry ELSE Fail(504, "graph_api_timeout")
    ELSE IF resp.kind = "request_error"
    THEN IF MayRetry(attempt) THEN Retry ELSE Fail(502, "graph_api_request_error")
    ELSE Fail(500, "user_info_fetch_error")

\* the request arrives and the upstream code is exchanged for tokens
CallbackBegin(state, exchange_ok, az_access, az_refresh) ==
    /\ fetch.pc \in {"idle", "done"}
    /\ IF state = NULL
       THEN /\ fetch' = [NoFetch EXCEPT !.pc = "done", !.http = 400,
                                        !.out = "invalid_request"]
            /\ ret' = [NoRet EXCEPT !.op = "oauth_azure_callback", !.http = 400,
                                    !.out = "invalid_request"]
       ELSE IF ~exchange_ok
       THEN /\ fetch' = [NoFetch EXCEPT !.pc = "done", !.state = state, !.http = 500,
                                        !.out = "user_info_fetch_error"]
            /\ ret' = [NoRet EXCEPT !.op = "oauth_azure_callback", !.arg = state,
                                    !.http = 500, !.out = "user_info_fetch_error"]
       ELSE /\ fetch' = [NoFetch EXCEPT !.pc = "request", !.state = state,
                                        !.az_access = az_access,
                                        !.az_refresh = az_refresh]
            /\ ret' = [NoRet EXCEPT !.op = "exchange_code_for_tokens", !.arg = state]
    /\ UNCHANGED <<now, nextval, svc, dcr_azure_app, dcr_clients, dcr_tokens,
                   dcr_azure_users, env, redeemed, twice, procs,
                   accounts, account_delegations, token_share_manager>>

\* one GET /v1.0/me and what the loop does with its result; after the break
\* the handler writes the metadata and redirects without another await
ProfileRequest(resp) ==
    LET v == ProfileVerdict(fetch.attempt, resp)
    IN /\ fetch.pc = "request"
       /\ fetch' = [fetch EXCEPT !.pc = v.next, !.requests = @ + 1, !.last = resp,
                                 !.http = v.http, !.out = v.out]
       /\ dcr_tokens' = IF v.http = 302
                        THEN SetCodeIdentity(dcr_tokens, fetch.state, resp.id,
                                             fetch.az_access, fetch.az_refresh)
                        ELSE dcr_tokens
       /\ ret' = IF v.next = "done"
                 THEN [NoRet EXCEPT !.op = "oauth_azure_callback", !.arg = fetch.state,
                                    !.http = v.http, !.out = v.out,
                                    !.roid = IF v.http = 302 THEN resp.id ELSE NULL]
                 ELSE [NoRet EXCEPT !.op = "profile_request", !.arg = fetch.state]
       /\ UNCHANGED <<now, nextval, svc, dcr_azure_app, dcr_clients,
                      dcr_azure_users, env, redeemed, twice, procs,
                      accounts, account_delegations, token_share_manager>>

\* await asyncio.sleep(retry_delay * (2 ** attempt)); continue
BackoffSleep ==
    /\ fetch.pc = "sleep"
    /\ fetch' = [fetch EXCEPT !.pc = "request", !.attempt = @ + 1,
                              !.waits = Append(@, RetryDelay * 2 ^ fetch.attempt)]
    /\ ret' = [NoRet EXCEPT !.op = "sleep", !.arg = fetch.state]
    /\ UNCHANGED <<now, nextval, svc, dcr_azure_app, dcr_clients, dcr_tokens,
                   dcr_azure_users, env, redeemed, twice, procs,
                   accounts, account_delegations, token_share_manager>>

\* ---- verify_authorization_code called on the service -----------------------
Redeem(res, code, client, redirect, verifier) ==
    /\ redeemed' = IF res.out = "ok"
                   THEN redeemed \cup {<<code, client, redirect, verifier>>}
                   ELSE redeemed
    /\ twice' = IF res.out = "ok" /\ \E x \in redeemed : x[1] = code
                THEN twice \cup {code} ELSE twice

VerifyAuthorizationCode(code, client, redirect, verifier) ==
    LET res == verify_authorization_code(dcr_tokens, now, code, client, redirect, verifier)
    IN /\ dcr_tokens' = res.tokens
       /\ Redeem(res, code, client, redirect, verifier)
       /\ ret' = [NoRet EXCEPT !.op = "verify_authorization_code", !.arg = code,
                               !.client = client, !.out = res.out, !.roid = res.oid,
                               !.arg2 = verifier, !.redirect = redirect,
                               !.was = (<<code, client, redirect, verifier>> \in redeemed)]
       /\ UNCHANGED <<now, nextval, svc, dcr_azure_app, dcr_clients,
                      dcr_azure_users, env, procs, fetch,
                      accounts, account_delegations, token_share_manager>>

\* ---- POST /oauth/token ------------------------------------------------------
TokenError(http, err, arg, client, client_secret, was) ==
    ret' = [NoRet EXCEPT !.op = "oauth_token", !.http = http, !.out = err,
                         !.arg = arg, !.client = client,
                         !.secret = client_secret, !.was = was]

UpstreamRecorded_Any(row) == TRUE

\* metadata of the code holds azure_tokens with an access_token and
\* azure_user_info with an object_id
UpstreamRecorded(row) == row.az_access # NULL /\ row.az_uid # NULL

AuthorizationCodeGrant(client_id, client_secret, code, redirect_uri, code_verifier) ==
    LET res == verify_authorization_code(dcr_tokens, now, code, client_id,
                                         redirect_uri, code_verifier)
        was == <<code, client_id, redirect_uri, code_verifier>> \in redeemed
        row == CHOOSE r \in CodeRows(res.tokens, code) : TRUE
    IN IF code = NULL \/ redirect_uri = NULL
       THEN /\ TokenError(400, "invalid_request", code, client_id, client_secret, FALSE)
            /\ UNCHANGED <<nextval, dcr_tokens, dcr_azure_users, redeemed, twice>>
       ELSE IF res.out # "ok"
       THEN /\ TokenError(400, "invalid_grant", code, client_id, client_secret, was)
            /\ dcr_tokens' = res.tokens
            /\ UNCHANGED <<nextval, dcr_azure_users, redeemed, twice>>
       ELSE IF ~UpstreamRecorded(row)
       THEN /\ TokenError(400, "invalid_grant", code, client_id, client_secret, was)
            /\ dcr_tokens' = res.tokens
            /\ Redeem(res, code, client_id, redirect_uri, code_verifier)
            /\ UNCHANGED <<nextval, dcr_azure_users>>
       ELSE /\ nextval + 1 <= MaxVal
            /\ dcr_azure_users' = UpsertAzureUser(dcr_azure_users, svc.app, row.az_uid,
                                                  row.az_access, row.az_refresh)
            /\ dcr_tokens' = store_tokens(res.tokens, now, client_id, nextval,
                                          nextval + 1, ExpiresIn, row.az_uid)
            /\ nextval' = nextval + 2
            /\ Redeem(res, code, client_id, redirect_uri, code_verifier)
            /\ ret' = [NoRet EXCEPT !.op = "oauth_token", !.http = 200, !.arg = code,
                                    !.client = client_id, !.rclient = client_id, !.secret = client_secret,
                                    !.roid = row.az_uid, !.arg2 = nextval, !.was = was]

AzureUser(users, oid) == {u \in users : u.object_id = oid}

\* the upstream refresh (oauth_client.refresh_access_token) either returns
\* new upstream tokens or raises; a raise leaves the store untouched
RefreshTokenGrant(client_id, client_secret, refresh_token,
                  upstream_ok, new_access, new_refresh) ==
    LET res == verify_refresh_token(dcr_tokens, dcr_clients, now, refresh_token, client_id)
        usr == AzureUser(dcr_azure_users, res.oid)
    IN IF refresh_token = NULL
       THEN /\ TokenError(400, "invalid_request", refresh_token, client_id, client_secret, FALSE)
            /\ UNCHANGED <<nextval, dcr_tokens, dcr_azure_users>>
       ELSE IF res.out # "ok"
       THEN /\ TokenError(400, "invalid_grant", refresh_token, client_id, client_secret, FALSE)
            /\ UNCHANGED <<nextval, dcr_tokens, dcr_azure_users>>
       ELSE IF usr = {} \/ \E u \in usr : u.refresh_token = NULL
       THEN /\ TokenError(400, "invalid_grant", refresh_token, client_id, client_secret, FALSE)
            /\ UNCHANGED <<nextval, dcr_tokens, dcr_azure_users>>
       ELSE IF ~upstream_ok
       THEN /\ TokenError(500, "upstream_error", refresh_token, client_id, client_secret, FALSE)
            /\ UNCHANGED <<nextval, dcr_tokens, dcr_azure_users>>
       ELSE /\ nextval + 1 <= MaxVal
            /\ dcr_azure_users' =
                 UpsertAzureUser(dcr_azure_users, svc.app, res.oid, new_access,
                     IF new_refresh # NULL THEN new_refresh
                     ELSE (CHOOSE u \in usr : TRUE).refresh_token)
            /\ dcr_tokens' = store_tokens(dcr_tokens, now, client_id, nextval,
                                          nextval + 1, ExpiresIn, res.oid)
            /\ nextval' = nextval + 2
            /\ ret' = [NoRet EXCEPT !.op = "oauth_token", !.http = 200,
                                    !.arg = refresh_token, !.client = client_id,
                                    !.rclient = client_id, !.secret = client_secret, !.roid = res.oid,
                                    !.arg2 = nextval,
                                    !.before = {AzTokens(new_access, new_refresh)}]

\* POST /oauth/token, grant_type = authorization_code, without the check of
\* the client credentials
OauthTokenCode_NoClientCheck(client_id, client_secret, code, redirect_uri, code_verifier) ==
    /\ AuthorizationCodeGrant(client_id, client_secret, code, redirect_uri, code_verifier)
    /\ UNCHANGED <<now, svc, dcr_azure_app, dcr_clients, env, procs, fetch,
                   accounts, account_delegations, token_share_manager>>

\* verify_client_credentials is called outside any try block, and
\* secrets.compare_digest raises TypeError on a str with a character outside
\* ASCII: the request is answered 500 before any grant processing
OauthTokenCode(client_id, client_secret, code, redirect_uri, code_verifier) ==
    /\ IF CompareDigestRaises(dcr_clients, client_id, client_secret)
       THEN /\ TokenError(500, "Error", code, client_id, client_secret, FALSE)
            /\ UNCHANGED <<nextval, dcr_tokens, dcr_azure_users, redeemed, twice>>
       ELSE IF ~verify_client_credentials(dcr_clients, client_id, client_secret)
       THEN /\ TokenError(401, "invalid_client", code, client_id, client_secret, FALSE)
            /\ UNCHANGED <<nextval, dcr_tokens, dcr_azure_users, redeemed, twice>>
       ELSE AuthorizationCodeGrant(client_id, client_secret, code, redirect_uri, code_verifier)
    /\ UNCHANGED <<now, svc, dcr_azure_app, dcr_clients, env, procs, fetch,
                   accounts, account_delegations, token_share_manager>>

OauthTokenRefresh(client_id, client_secret, refresh_token, upstream_ok, new_access, new_refresh) ==
    /\ IF CompareDigestRaises(dcr_clients, client_id, client_secret)
       THEN /\ TokenError(500, "Error", refresh_token, client_id, client_secret, FALSE)
            /\ UNCHANGED <<nextval, dcr_tokens, dcr_azure_users>>
       ELSE IF ~verify_client_credentials(dcr_clients, client_id, client_secret)
       THEN /\ TokenError(401, "invalid_client", refresh_token, client_id, client_secret, FALSE)
            /\ UNCHANGED <<nextval, dcr_tokens, dcr_azure_users>>
       ELSE RefreshTokenGrant(client_id, client_secret, refresh_token, upstream_ok,
                              new_access, new_refresh)
    /\ UNCHANGED <<now, svc, dcr_azure_app, dcr_clients, env, redeemed, twice, procs, fetch,
                   accounts, account_delegations, token_share_manager>>

\* ---- store_tokens called on the service -------------------------------------
StoreTokens(client, oid, with_refresh, az_access, az_refresh) ==
    /\ (IF with_refresh THEN nextval + 1 ELSE nextval) <= MaxVal
    /\ dcr_azure_users' = UpsertAzureUser(dcr_azure_users, svc.app, oid,
                                          az_access, az_refresh)
    /\ dcr_tokens' = store_tokens(dcr_tokens, now, client, nextval,
                                  IF with_refresh THEN nextval + 1 ELSE NULL,
                                  ExpiresIn, oid)
    /\ nextval' = IF with_refresh THEN nextval + 2 ELSE nextval + 1
    /\ ret' = [NoRet EXCEPT !.op = "store_tokens", !.client = client, !.roid = oid,
                            !.arg = nextval,
                            !.arg2 = IF with_refresh THEN nextval + 1 ELSE NULL]
    /\ UNCHANGED <<now, svc, dcr_azure_app, dcr_clients, env, redeemed, twice, procs, fetch,
                   accounts, account_delegations, token_share_manager>>

\* ---- is_user_allowed called on the service -----------------------------------
IsUserAllowed(user_email) ==
    /\ ret' = [NoRet EXCEPT !.op = "is_user_allowed", !.arg = user_email,
                            !.was = is_user_allowed(svc.allowed_domains, user_email)]
    /\ UNCHANGED <<now, nextval, svc, dcr_azure_app, dcr_clients, dcr_tokens,
                   dcr_azure_users, env, redeemed, twice, procs, fetch,
                   accounts, account_delegations, token_share_manager>>

\* ---- the helpers of auth_helpers.py called by a tool handler -----------------
DbOut(db_ok) == IF db_ok THEN "" ELSE "db_error"

GetDelegatedUserIds(user_id, db_ok) ==
    /\ ret' = [NoRet EXCEPT !.op = "get_delegated_user_ids", !.client = user_id,
                            !.out = DbOut(db_ok),
                            !.before = get_delegated_user_ids(accounts,
                                           account_delegations, now, user_id, db_ok)]
    /\ UNCHANGED <<now, nextval, svc, dcr_azure_app, dcr_clients, dcr_tokens,
                   dcr_azure_users, env, redeemed, twice, procs, fetch,
                   accounts, account_delegations, token_share_manager>>

IsUserAccessible(authenticated_user_id, target_user_id, db_ok) ==
    /\ ret' = [NoRet EXCEPT !.op = "is_user_accessible",
                            !.client = authenticated_user_id,
                            !.arg = target_user_id, !.out = DbOut(db_ok),
                            !.was = is_user_accessible(accounts, account_delegations,
                                        now, authenticated_user_id, target_user_id,
                                        db_ok)]
    /\ UNCHANGED <<now, nextval, svc, dcr_azure_app, dcr_clients, dcr_tokens,
                   dcr_azure_users, env, redeemed, twice, procs, fetch,
                   accounts, account_delegations, token_share_manager>>

GetAuthenticatedUserId(param_user_id, authenticated_user_id, db_ok) ==
    /\ \E res \in get_authenticated_user_id(accounts, account_delegations, now,
                      param_user_id, authenticated_user_id, db_ok) :
          ret' = [NoRet EXCEPT !.op = "get_authenticated_user_id",
                               !.client = authenticated_user_id,
                               !.arg = param_user_id, !.rclient = res.user,
                               !.out = IF res.out = "raise" THEN "raise"
                                       ELSE DbOut(db_ok)]
    /\ UNCHANGED <<now, nextval, svc, dcr_azure_app, dcr_clients, dcr_tokens,
                   dcr_azure_users, env, redeemed, twice, procs, fetch,
                   accounts, account_delegations, token_share_manager>>

\* ---- verify_bearer_token / verify_refresh_token called on the service -------
VerifyBearerToken(token) ==
    LET res == verify_bearer_token(dcr_tokens, now, token)
    IN /\ ret' = [NoRet EXCEPT !.op = "verify_bearer_token", !.arg = token,
                               !.out = IF res.ok THEN "ok" ELSE "None",
                               !.rclient = res.client, !.roid = res.oid]
       /\ UNCHANGED <<now, nextval, svc, dcr_azure_app, dcr_clients, dcr_tokens,
                      dcr_azure_users, env, redeemed, twice, procs, fetch,
                      accounts, account_delegations, token_share_manager>>

VerifyRefreshToken(token, client) ==
    LET res == verify_refresh_token(dcr_tokens, dcr_clients, now, token, client)
    IN /\ ret' = [NoRet EXCEPT !.op = "verify_refresh_token", !.arg = token,
                               !.client = client, !.out = res.out, !.roid = res.oid]
       /\ UNCHANGED <<now, nextval, svc, dcr_azure_app, dcr_clients, dcr_tokens,
                      dcr_azure_users, env, redeemed, twice, procs, fetch,
                      accounts, account_delegations, token_share_manager>>

\* ---- cleanup_stale_clients(hours = 24) ---------------------------------------
CleanupStaleClients ==
    /\ dcr_clients' = cleanup_clients(dcr_clients, dcr_tokens, now)
    /\ dcr_tokens' = cleanup_tokens(dcr_tokens, now)
    /\ ret' = [NoRet EXCEPT !.op = "cleanup_stale_clients"]
    /\ UNCHANGED <<now, nextval, svc, dcr_azure_app, dcr_azure_users, env,
                   redeemed, twice, procs, fetch,
                   accounts, account_delegations, token_share_manager>>

\* ---- auth_middleware.verify_bearer_token_middleware --------------------------
\* a request: whether its path is exempt ("/.well-known/" inside, or one of the
\* excluded prefixes), its method, and the token of its "Authorization:
\* Bearer <token>" header (NULL: no such header)
HttpMethods == {"GET", "HEAD", "OPTIONS", "POST"}

\* a middleware that accepts whatever token is presented
middleware_NoVerify(tokens, t, exempt_path, method, token) ==
    IF exempt_path \/ method \in {"OPTIONS", "GET", "HEAD"}
    THEN [out |-> "skipped", http |-> 0, hdr |-> FALSE, client |-> NULL, oid |-> NULL]
    ELSE IF token = NULL
    THEN [out |-> "failed", http |-> 401, hdr |-> TRUE, client |-> NULL, oid |-> NULL]
    ELSE [out |-> "success", http |-> 0, hdr |-> FALSE, client |-> NULL, oid |-> NULL]

middleware(tokens, t, exempt_path, method, token) ==
    IF exempt_path \/ method \in {"OPTIONS", "GET", "HEAD"}
    THEN [out |-> "skipped", http |-> 0, hdr |-> FALSE, client |-> NULL, oid |-> NULL]
    ELSE IF token = NULL
    THEN [out |-> "failed", http |-> 401, hdr |-> TRUE, client |-> NULL, oid |-> NULL]
    ELSE LET res == verify_bearer_token(tokens, t, token)
         IN IF res.ok
            THEN [out |-> "success", http |-> 0, hdr |-> FALSE,
                  client |-> res.client, oid |-> res.oid]
            ELSE [out |-> "failed", http |-> 401, hdr |-> TRUE,
                  client |-> NULL, oid |-> NULL]

Middleware(exempt_path, method, token) ==
    LET res == middleware(dcr_tokens, now, exempt_path, method, token)
    IN /\ ret' = [NoRet EXCEPT !.op = "middleware", !.arg = token, !.out = res.out,
                               !.http = res.http, !.hdr = res.hdr,
                               !.rclient = res.client, !.roid = res.oid,
                               !.was = exempt_path,
                               !.arg2 = IF method = "POST" THEN 1 ELSE 0]
       /\ UNCHANGED <<now, nextval, svc, dcr_azure_app, dcr_clients, dcr_tokens,
                      dcr_azure_users, env, redeemed, twice, procs, fetch,
                      accounts, account_delegations, token_share_manager>>

\* ---- the environment and load_azure_config (run by every DCRService()) -------
EnvApps == {NULL, 1, 2, 1 + PadShift}
EnvSecrets == {NULL, 1, 2}
EnvRedirects == {NULL, 1}
Envs == [app : EnvApps, secret : EnvSecrets, tenant : Tenants, redirect : EnvRedirects]

\* the process is restarted with another environment
SetEnv(e) ==
    /\ e # env
    /\ env' = e
    /\ ret' = [NoRet EXCEPT !.op = "setenv"]
    /\ UNCHANGED <<now, nextval, svc, dcr_azure_app, dcr_clients, dcr_tokens,
                   dcr_azure_users, redeemed, twice, procs, fetch,
                   accounts, account_delegations, token_share_manager>>

LoadAzureConfig ==
    LET res == load_azure_config(env, dcr_azure_app, dcr_tokens)
    IN /\ svc' = res.svc
       /\ dcr_azure_app' = res.table
       /\ dcr_tokens' = res.tokens
       /\ ret' = [NoRet EXCEPT !.op = "load_azure_config",
                               !.out = IF res.changed THEN "changed" ELSE "loaded",
                               !.was = (dcr_azure_app # {}),
                               !.client = IF dcr_azure_app = {} THEN NULL
                                          ELSE (CHOOSE r \in dcr_azure_app : TRUE).app,
                               !.redirect = IF dcr_azure_app = {} THEN NULL
                                            ELSE (CHOOSE r \in dcr_azure_app : TRUE).redirect,
                               !.before = {Decrypt(r.value) : r \in
                                   {x \in dcr_tokens : x.status = "active"
                                       /\ x.type \in {"Bearer", "refresh"}}}]
       /\ UNCHANGED <<now, nextval, dcr_clients, dcr_azure_users, env,
                      redeemed, twice, procs, fetch,
                      accounts, account_delegations, token_share_manager>>

\* ---- auth_middleware_improved: TokenShareManager and the middleware -----------
\* _token_map: rows client, token, timestamp, one per client; _service_tokens:
\* rows service, client, one per service
OwnShareHours == 1
OtherShareMinutes == 30
Minutes(n) == n * 60 * TicksPerSecond
Hours(n) == Minutes(60 * n)

store_token(mgr, service, token, client_id, t) ==
    [token_map |-> {e \in mgr.token_map : e.client # client_id}
                   \cup {[client |-> client_id, token |-> token, timestamp |-> t]},
     service_tokens |-> {x \in mgr.service_tokens : x.service # service}
                        \cup {[service |-> service, client |-> client_id]}]

\* the entries get_shared_token may return: the one of this service when it
\* is less than an hour old, else the one of another service when it is less
\* than 30 minutes old
OwnEntries(mgr, service, t) ==
    {e \in mgr.token_map :
        /\ \E x \in mgr.service_tokens : x.service = service /\ x.client = e.client
        /\ t - e.timestamp < Hours(OwnShareHours)}
OtherEntries(mgr, service, t) ==
    {e \in mgr.token_map :
        /\ \E x \in mgr.service_tokens : x.service # service /\ x.client = e.client
        /\ t - e.timestamp < Minutes(OtherShareMinutes)}

\* result: the token found (NULL: None) and the manager afterwards (a token
\* shared from another service maps this service to its client)
get_shared_token(mgr, service, t) ==
    IF OwnEntries(mgr, service, t) # {}
    THEN [token |-> (CHOOSE e \in OwnEntries(mgr, service, t) : TRUE).token, mgr |-> mgr]
    ELSE IF OtherEntries(mgr, service, t) # {}
    THEN LET e == CHOOSE x \in OtherEntries(mgr, service, t) : TRUE
         IN [token |-> e.token,
             mgr |-> [mgr EXCEPT !.service_tokens =
                         {x \in @ : x.service # service}
                         \cup {[service |-> service, client |-> e.client]}]]
    ELSE [token |-> NULL, mgr |-> mgr]

\* verify_bearer_token_middleware_improved: the answer (0: None, the request
\* goes on), the token that was verified and the manager afterwards; token is
\* the one of the Authorization header (NULL: no Bearer header)
middleware_improved(mgr, tokens, t, excluded_path, method, service, token) ==
    LET shared == get_shared_token(mgr, service, t)
        used == IF token # NULL THEN token ELSE shared.token
        mgr2 == IF token # NULL THEN mgr ELSE shared.mgr
        res == verify_bearer_token(tokens, t, used)
    IN IF excluded_path \/ method = "GET"
       THEN [http |-> 0, out |-> "skipped", used |-> NULL, client |-> NULL, mgr |-> mgr]
       ELSE IF used = NULL
       THEN [http |-> 401, out |-> "missing", used |-> NULL, client |-> NULL, mgr |-> mgr]
       ELSE IF res.ok
       THEN [http |-> 0, out |-> "success", used |-> used, client |-> res.client,
             mgr |-> store_token(mgr2, service, used, res.client, t)]
       ELSE [http |-> 401, out |-> "invalid", used |-> used, client |-> NULL, mgr |-> mgr2]

MiddlewareImproved(excluded_path, method, service, token) ==
    LET res == middleware_improved(token_share_manager, dcr_tokens, now,
                                   excluded_path, method, service, token)
    IN /\ token_share_manager' = res.mgr
       /\ ret' = [NoRet EXCEPT !.op = "middleware_improved", !.arg = token,
                               !.arg2 = res.used, !.hdr = (token # NULL),
                               !.http = res.http, !.out = res.out,
                               !.rclient = res.client]
       /\ UNCHANGED <<now, nextval, svc, dcr_azure_app, dcr_clients, dcr_tokens,
                      dcr_azure_users, env, redeemed, twice, procs, fetch,
                      accounts, account_delegations>>

\* ---- what a caller can present ---------------------------------------------
\* a value secrets.token_urlsafe never returned
Unknown == MaxVal + 1
ClientIds == {c.id : c \in dcr_clients} \cup {Unknown}
Secrets == {Decrypt(c.secret) : c \in dcr_clients}
Codes == {r.value.v : r \in {x \in dcr_tokens : x.type = "authorization_code"}}
         \cup {x[1] : x \in redeemed} \cup {Unknown}
TokenValues == {r.value.v : r \in {x \in dcr_tokens : x.type # "authorization_code"}}
               \cup {Unknown}

\* ---- the authorization-code flow at one instant ----------------------------
\* register, authorize, upstream callback, redeem on the service and through
\* POST /oauth/token; the clock stands still
NextFlow ==
    \/ RegisterClient(1, NULL)
    \/ \E c \in ClientIds : OauthAuthorize(c, 1, NULL, "S256")
    \/ \E k \in Codes, o \in CallbackOutcomes :
          OauthAzureCallback(k, o, 1, 1, 1)
    \/ \E k \in Codes, c \in ClientIds, r \in Redirects \cup {NULL} :
          VerifyAuthorizationCode(k, c, r, NULL)
    \/ \E c \in ClientIds, sec \in Secrets, k \in Codes, r \in Redirects \cup {NULL} :
          OauthTokenCode(c, sec, k, r, NULL)

SpecFlow == Init /\ [][NextFlow]_vars

\* C1 (as amended): once a redeem of a code has succeeded, every later redeem
\* with identical inputs fails: as AlreadyUsed while the row of the code is
\* still stored, as NotFound once a later create_authorization_code of the
\* same client has deleted it; POST /oauth/token answers the repeated
\* authorization_code grant with 400 invalid_grant.
C1_SingleUse ==
    /\ \A x \in redeemed :
          verify_authorization_code(dcr_tokens, now, x[1], x[2], x[3], x[4]).out
             = IF CodeRows(dcr_tokens, x[1]) # {} THEN "AlreadyUsed" ELSE "NotFound"
    /\ (ret.op = "verify_authorization_code" /\ ret.was)
          => ret.out = IF CodeRows(dcr_tokens, ret.arg) # {}
                       THEN "AlreadyUsed" ELSE "NotFound"
    /\ (ret.op = "oauth_token" /\ ret.was)
          => (ret.http = 400 /\ ret.out = "invalid_grant")

\* a repeated grant was answered by the token endpoint, and the code it
\* repeats is still stored
C1_Witness ==
    /\ ret.op = "oauth_token" /\ ret.was /\ ret.http = 400
    /\ CodeRows(dcr_tokens, ret.arg) # {}

\* C1 as stated: every later redeem with identical inputs fails as AlreadyUsed
C1_AlwaysAlreadyUsed ==
    /\ (ret.op = "verify_authorization_code" /\ ret.was) => ret.out = "AlreadyUsed"
    /\ (ret.op = "oauth_token" /\ ret.was)
          => (ret.http = 400 /\ ret.out = "invalid_grant")

\* ---- several server processes on the one database file ----------------------
\* Each server (mail_query, outlook, onenote, teams) has its own DCRService and
\* its own autocommit connection to the same file; the statements of two
\* calls interleave, one statement at a time.  A process p is between two
\* statements of a call when procs[p].pc # "idle".

\* verify_authorization_code up to the end of its checks: the SELECT and the
\* checks on the row it returned; a failing check other than the expiry
\* returns at once, without a write
RedeemRead(p, code, client, redirect, verifier) ==
    LET rows == CodeRows(dcr_tokens, code)
        row == CHOOSE r \in rows : TRUE
        v == IF rows = {} THEN "NotFound"
             ELSE CodeVerdict(row, now, client, redirect, verifier)
    IN /\ procs[p].pc = "idle"
       /\ IF v \in {"ok", "Expired"}
          THEN /\ procs' = [procs EXCEPT ![p] =
                              [Idle EXCEPT !.pc = "mark_used", !.code = code,
                                           !.client = client, !.redirect = redirect,
                                           !.verifier = verifier, !.out = v,
                                           !.oid = row.oid]]
               /\ ret' = [NoRet EXCEPT !.op = "select_code", !.arg = code]
          ELSE /\ UNCHANGED procs
               /\ ret' = [NoRet EXCEPT !.op = "verify_authorization_code",
                                       !.arg = code, !.client = client, !.out = v]
       /\ UNCHANGED <<now, nextval, svc, dcr_azure_app, dcr_clients, dcr_tokens,
                      dcr_azure_users, env, redeemed, twice, fetch,
                      accounts, account_delegations, token_share_manager>>

\* the UPDATE that marks the code used (or expired), and the return
RedeemWrite(p) ==
    LET q == procs[p]
    IN /\ q.pc = "mark_used"
       /\ dcr_tokens' = MarkExpired(dcr_tokens, q.code)
       /\ Redeem(q, q.code, q.client, q.redirect, q.verifier)
       /\ procs' = [procs EXCEPT ![p] = Idle]
       /\ ret' = [NoRet EXCEPT !.op = "verify_authorization_code", !.arg = q.code,
                               !.client = q.client, !.out = q.out, !.roid = q.oid,
                               !.was = (q.code \in {x[1] : x \in redeemed})]
       /\ UNCHANGED <<now, nextval, svc, dcr_azure_app, dcr_clients,
                      dcr_azure_users, env, fetch,
                      accounts, account_delegations, token_share_manager>>

NextRedeemRace ==
    \/ RegisterClient(1, NULL)
    \/ \E c \in ClientIds : OauthAuthorize(c, 1, NULL, "S256")
    \/ \E p \in ProcIds, k \in Codes : RedeemRead(p, k, 1, 1, NULL)
    \/ \E p \in ProcIds : RedeemWrite(p)

SpecRedeemRace == Init /\ [][NextRedeemRace]_vars

\* C2: two concurrent redeems of the same active code never both succeed
C2_NeverBothSucceed == twice = {}

\* ---- PKCE: codes issued with and without a challenge ------------------------
\* code_challenge and code_challenge_method of the authorize requests: no
\* PKCE, an S256 challenge, a plain challenge, and a challenge with an empty
\* method (recorded as plain)
PkceRequests == {<<NULL, "S256">>, <<Sha256B64(1), "S256">>, <<1, "plain">>,
                 <<Sha256B64(1), "none">>}

NextPkce ==
    \/ RegisterClient(1, NULL)
    \/ \E c \in ClientIds, q \in PkceRequests : OauthAuthorize(c, 1, q[1], q[2])
    \/ \E k \in Codes, v \in Verifiers \cup {NULL} :
          VerifyAuthorizationCode(k, 1, 1, v)

SpecPkce == Init /\ [][NextPkce]_vars

\* what RFC 7636 asks of verifier v for the challenge recorded in a row
Satisfies(row, v) ==
    \/ row.method = "S256" /\ row.challenge = Sha256B64(v)
    \/ row.method = "plain" /\ row.challenge = v

\* the row passes every check of the last redeem that comes before PKCE
PassesUpToPkce(row) ==
    /\ row.client = ret.client /\ row.status = "active" /\ row.exp >= now
    /\ (ret.redirect = NULL \/ row.redirect = ret.redirect)

\* C3: a redeem of a code issued with a challenge, all other checks passing,
\* succeeds iff the verifier satisfies the challenge (S256: challenge ==
\* base64url(sha256(verifier)); plain: challenge == verifier); any other
\* verifier fails as PKCEFailed, a missing verifier as PKCERequired.
\* (A successful redeem leaves the row expired, a failed PKCE check leaves it
\* as it was: a row that still passes the other checks was not redeemed.)
C3_PkceCorrect ==
    ret.op = "verify_authorization_code" =>
       \A row \in CodeRows(dcr_tokens, ret.arg) :
          row.challenge # NULL =>
             /\ ret.out = "ok" =>
                   /\ ret.arg2 # NULL /\ Satisfies(row, ret.arg2)
                   /\ verify_code_verifier(ret.arg2, row.challenge, row.method)
             /\ ret.out = "PKCERequired" => ret.arg2 = NULL
             /\ ret.out = "PKCEFailed" =>
                   /\ ret.arg2 # NULL /\ ~Satisfies(row, ret.arg2)
                   /\ ~verify_code_verifier(ret.arg2, row.challenge, row.method)
             /\ PassesUpToPkce(row) =>
                   /\ ret.out = IF ret.arg2 = NULL THEN "PKCERequired"
                                ELSE "PKCEFailed"
                   /\ ~Satisfies(row, ret.arg2)

\* a code issued with an S256 challenge was redeemed with the right verifier
C3_Witness ==
    /\ ret.op = "verify_authorization_code" /\ ret.out = "ok" /\ ret.arg2 # NULL
    /\ \E row \in CodeRows(dcr_tokens, ret.arg) :
          row.method = "S256" /\ row.challenge = Sha256B64(ret.arg2)

\* ---- authorization codes and the clock --------------------------------------
\* the clock is read around the instant the first codes expire
CodeTimes == Around({CodeTtl})

NextExpiry ==
    \/ \E t \in CodeTimes : Tick(t)
    \/ RegisterClient(1, NULL)
    \/ \E c \in ClientIds : OauthAuthorize(c, 1, NULL, "S256")
    \/ \E k \in Codes, c \in ClientIds : VerifyAuthorizationCode(k, c, 1, NULL)
    \/ CleanupStaleClients

SpecExpiry == Init /\ [][NextExpiry]_vars

AuthorizationCodes == {r \in dcr_tokens : r.type = "authorization_code"}

\* C4: a code redeemed after its expires_at (issue time + 10 minutes) fails
\* with Expired and its status becomes expired, so every later redeem of it
\* fails too; a code redeemed by its own client before expires_at is never
\* rejected as expired
C4_CodeExpiry ==
    /\ \A row \in AuthorizationCodes :
          LET res == verify_authorization_code(dcr_tokens, now, row.value.v,
                                               row.client, row.redirect, NULL)
          IN /\ (row.exp < now /\ row.status = "active") =>
                   /\ res.out = "Expired"
                   /\ \A r2 \in CodeRows(res.tokens, row.value.v) :
                         r2.status = "expired"
             /\ row.exp < now =>
                   \A c \in ClientIds, r \in Redirects \cup {NULL} :
                      verify_authorization_code(dcr_tokens, now, row.value.v,
                                                c, r, NULL).out # "ok"
             /\ row.exp >= now =>
                   /\ res.out # "Expired"
                   /\ row.status = "expired" =>
                         row.value.v \in {x[1] : x \in redeemed}
    /\ (ret.op = "verify_authorization_code" /\ ret.out = "Expired") =>
          \A row \in CodeRows(dcr_tokens, ret.arg) :
             row.exp < now /\ row.status = "expired"
    /\ (ret.op = "oauth_authorize" /\ ret.http = 302) =>
          \A row \in CodeRows(dcr_tokens, ret.arg) :
             row.exp = now + CodeTtlMinutes * 60 * TicksPerSecond

\* a code was redeemed after its expires_at and rejected as expired
C4_Witness ==
    /\ ret.op = "verify_authorization_code" /\ ret.out = "Expired"
    /\ \E row \in CodeRows(dcr_tokens, ret.arg) :
          row.exp < now /\ row.status = "expired" /\ row.client = ret.client

\* ---- issuing tokens: store_tokens called again and again --------------------
RegisteredClients == {c.id : c \in dcr_clients}

NextIssue ==
    \/ RegisterClient(1, NULL)
    \/ \E c \in RegisteredClients, o \in ObjectIds \cup {NULL}, rf \in BOOLEAN :
          StoreTokens(c, o, rf, 1, 1)

SpecIssue == Init /\ [][NextIssue]_vars

\* the tokens of one kind issued to a (client, identity) pair, and the one
\* issued last (secrets.token_urlsafe values are numbered in issue order)
TokensOf(kind, c, o) ==
    {r \in dcr_tokens : r.type = kind /\ r.client = c /\ r.oid = o}
ActiveOf(kind, c, o) == {r \in TokensOf(kind, c, o) : r.status = "active"}
Latest(rows) == {r \in rows : \A x \in rows : Decrypt(x.value) <= Decrypt(r.value)}

\* C5: after any number of sequential store_tokens calls for one (client,
\* identity) pair, exactly one Bearer token and at most one refresh token of
\* the pair are active, and every earlier token of that kind is revoked
C5_AtMostOneActive ==
    \A c \in RegisteredClients, o \in ObjectIds :
       TokensOf("Bearer", c, o) # {} =>
          /\ Cardinality(ActiveOf("Bearer", c, o)) = 1
          /\ ActiveOf("Bearer", c, o) = Latest(TokensOf("Bearer", c, o))
          /\ Cardinality(ActiveOf("refresh", c, o)) <= 1
          /\ ActiveOf("refresh", c, o) \subseteq Latest(TokensOf("refresh", c, o))
          /\ \A kind \in {"Bearer", "refresh"} :
                \A r \in TokensOf(kind, c, o) \ Latest(TokensOf(kind, c, o)) :
                   r.status = "revoked"

\* store_tokens has just returned from its second call with a refresh token
\* for one pair
C5_Witness ==
    /\ ret.op = "store_tokens" /\ ret.arg2 # NULL
    /\ Cardinality(TokensOf("Bearer", ret.client, ret.roid)) >= 2
    /\ Cardinality(TokensOf("refresh", ret.client, ret.roid)) >= 2

\* ---- store_tokens in several server processes -------------------------------
\* the caller has minted the tokens; statement 1 (INSERT OR REPLACE INTO
\* dcr_azure_users) runs
StoreStart(p, client, oid, with_refresh) ==
    /\ procs[p].pc = "idle"
    /\ (IF with_refresh THEN nextval + 1 ELSE nextval) <= MaxVal
    /\ dcr_azure_users' = UpsertAzureUser(dcr_azure_users, svc.app, oid, 1, 1)
    /\ procs' = [procs EXCEPT ![p] =
                   [Idle EXCEPT !.pc = "revoke_bearer", !.client = client,
                                !.oid = oid, !.access = nextval,
                                !.refresh = IF with_refresh THEN nextval + 1
                                            ELSE NULL]]
    /\ nextval' = IF with_refresh THEN nextval + 2 ELSE nextval + 1
    /\ ret' = [NoRet EXCEPT !.op = "upsert_azure_user", !.client = client]
    /\ UNCHANGED <<now, svc, dcr_azure_app, dcr_clients, dcr_tokens, env,
                   redeemed, twice, fetch,
                   accounts, account_delegations, token_share_manager>>

\* statement 2: revoke the active Bearer tokens of the pair
StoreRevokeBearer(p) ==
    /\ procs[p].pc = "revoke_bearer"
    /\ dcr_tokens' = RevokeBearer(dcr_tokens, procs[p].client, procs[p].oid)
    /\ procs' = [procs EXCEPT ![p].pc = "insert_bearer"]
    /\ ret' = [NoRet EXCEPT !.op = "revoke_bearer", !.client = procs[p].client]
    /\ UNCHANGED <<now, nextval, svc, dcr_azure_app, dcr_clients,
                   dcr_azure_users, env, redeemed, twice, fetch,
                   accounts, account_delegations, token_share_manager>>

\* statement 3: insert the new Bearer token; without a refresh token the
\* call returns
StoreInsertBearer(p) ==
    LET q == procs[p]
    IN /\ q.pc = "insert_bearer"
       /\ dcr_tokens' = InsertBearer(dcr_tokens, now, q.client, q.access,
                                     ExpiresIn, q.oid)
       /\ procs' = [procs EXCEPT ![p] = IF q.refresh = NULL THEN Idle
                                        ELSE [q EXCEPT !.pc = "revoke_refresh"]]
       /\ ret' = IF q.refresh = NULL
                 THEN [NoRet EXCEPT !.op = "store_tokens", !.client = q.client,
                                    !.roid = q.oid, !.arg = q.access]
                 ELSE [NoRet EXCEPT !.op = "insert_bearer", !.client = q.client]
       /\ UNCHANGED <<now, nextval, svc, dcr_azure_app, dcr_clients,
                      dcr_azure_users, env, redeemed, twice, fetch,
                      accounts, account_delegations, token_share_manager>>

\* statement 4a: revoke the active refresh tokens of the client
StoreRevokeRefresh(p) ==
    /\ procs[p].pc = "revoke_refresh"
    /\ dcr_tokens' = RevokeRefresh(dcr_tokens, procs[p].client)
    /\ procs' = [procs EXCEPT ![p].pc = "insert_refresh"]
    /\ ret' = [NoRet EXCEPT !.op = "revoke_refresh", !.client = procs[p].client]
    /\ UNCHANGED <<now, nextval, svc, dcr_azure_app, dcr_clients,
                   dcr_azure_users, env, redeemed, twice, fetch,
                   accounts, account_delegations, token_share_manager>>

\* statement 4b: insert the new refresh token, and return
StoreInsertRefresh(p) ==
    LET q == procs[p]
    IN /\ q.pc = "insert_refresh"
       /\ dcr_tokens' = InsertRefresh(dcr_tokens, now, q.client, q.refresh, q.oid)
       /\ procs' = [procs EXCEPT ![p] = Idle]
       /\ ret' = [NoRet EXCEPT !.op = "store_tokens", !.client = q.client,
                               !.roid = q.oid, !.arg = q.access,
                               !.arg2 = q.refresh]
       /\ UNCHANGED <<now, nextval, svc, dcr_azure_app, dcr_clients,
                      dcr_azure_users, env, redeemed, twice, fetch,
                      accounts, account_delegations, token_share_manager>>

NextStoreRace ==
    \/ RegisterClient(1, NULL)
    \/ \E p \in ProcIds, c \in RegisteredClients, o \in ObjectIds, rf \in BOOLEAN :
          StoreStart(p, c, o, rf)
    \/ \E p \in ProcIds : StoreRevokeBearer(p)
    \/ \E p \in ProcIds : StoreInsertBearer(p)
    \/ \E p \in ProcIds : StoreRevokeRefresh(p)
    \/ \E p \in ProcIds : StoreInsertRefresh(p)

SpecStoreRace == Init /\ [][NextStoreRace]_vars

\* C6: once every concurrent store_tokens call has finished, at most one
\* Bearer and at most one refresh token of a (client, identity) pair is active
C6_AtMostOneActiveWhenDone ==
    (\A p \in ProcIds : procs[p].pc = "idle") =>
       \A c \in RegisteredClients, o \in ObjectIds :
          /\ Cardinality(ActiveOf("Bearer", c, o)) <= 1
          /\ Cardinality(ActiveOf("refresh", c, o)) <= 1


\* ---- refresh tokens of several clients ---------------------------------------
\* clients register with either redirect URI, are linked to an identity, are
\* issued tokens, and refresh tokens are verified on the service and through
\* POST /oauth/token (grant_type = refresh_token); the clock stands still
NextRefresh ==
    \/ \E r \in Redirects : RegisterClient(r, NULL)
    \/ \E c \in ClientIds, o \in ObjectIds \cup {NULL}, r \in Redirects :
          UpdateClientUser(c, o, r)
    \/ \E c \in RegisteredClients, o \in ObjectIds : StoreTokens(c, o, TRUE, 1, 1)
    \/ \E tok \in TokenValues, c \in ClientIds : VerifyRefreshToken(tok, c)
    \/ \E c \in ClientIds, sec \in Secrets, tok \in TokenValues, up \in BOOLEAN :
          OauthTokenRefresh(c, sec, tok, up, 1, NULL)

SpecRefresh == Init /\ [][NextRefresh]_vars

\* the refresh rows holding a presented value that were issued to another
\* client than the presenting one
IssuedToOther(token, client) ==
    {r \in dcr_tokens : r.type = "refresh" /\ Decrypt(r.value) = token
                        /\ r.client # client}

\* C7: in every reachable state a refresh token issued to client A does not
\* verify when verify_refresh_token is called with another client id B: the
\* call returns None (no identity), and the refresh_token grant of
\* POST /oauth/token made with B's credentials is not answered 200.
C7_CrossClientRejected ==
    /\ \A r \in dcr_tokens : \A b \in ClientIds :
          r.type = "refresh" /\ b # r.client =>
             verify_refresh_token(dcr_tokens, dcr_clients, now,
                                  Decrypt(r.value), b).out # "ok"
    /\ ret.op = "verify_refresh_token" /\ IssuedToOther(ret.arg, ret.client) # {}
          => ret.out # "ok" /\ ret.roid = NULL
    /\ ret.op = "oauth_token" /\ IssuedToOther(ret.arg, ret.client) # {}
          => ret.http # 200

\* an active refresh token of one registered client was presented with the id
\* of another registered client and rejected for that reason
C7_Witness ==
    /\ ret.op = "verify_refresh_token"
    /\ ret.out = "ClientMismatch"
    /\ ret.client \in RegisteredClients
    /\ \E r \in IssuedToOther(ret.arg, ret.client) : r.status = "active"

\* ---- Bearer tokens around their expiry ---------------------------------------
\* tokens are issued, the clock moves to the instants around the expiry of a
\* token issued at 0, tokens are presented to verify_bearer_token and the
\* periodic cleanup runs
BearerTimes == Around({BearerTtl})

NextBearer ==
    \/ \E t \in BearerTimes : Tick(t)
    \/ RegisterClient(1, NULL)
    \/ \E c \in RegisteredClients : StoreTokens(c, 1, FALSE, 1, 1)
    \/ \E tok \in TokenValues : VerifyBearerToken(tok)
    \/ CleanupStaleClients

SpecBearer == Init /\ [][NextBearer]_vars

\* ---- requests passing the middleware -----------------------------------------
\* as above, with the tokens presented in the Authorization header of requests
NextMiddleware ==
    \/ \E t \in BearerTimes : Tick(t)
    \/ RegisterClient(1, NULL)
    \/ \E c \in RegisteredClients : StoreTokens(c, 1, FALSE, 1, 1)
    \/ \E ex \in BOOLEAN, m \in HttpMethods, tok \in TokenValues \cup {NULL} :
          Middleware(ex, m, tok)

SpecMiddleware == Init /\ [][NextMiddleware]_vars

\* the Bearer rows with status active whose expires_at has not passed
LiveBearers(token) ==
    {r \in dcr_tokens : r.type = "Bearer" /\ r.status = "active"
                        /\ r.exp >= now /\ Decrypt(r.value) = token}

\* C9: verify_bearer_token returns a result only if some Bearer token with
\* status active and an expires_at that has not passed has exactly the
\* presented value, and then returns the client id and identity of that
\* token; a revoked, expired or unknown value yields None.
C9_BearerVerification ==
    ret.op = "verify_bearer_token" /\ ret.out = "ok" =>
       \E r \in LiveBearers(ret.arg) : r.client = ret.rclient /\ r.oid = ret.roid

\* C10: for a request that is not exempt (path not excluded, method not GET,
\* HEAD or OPTIONS) the middleware lets the request proceed exactly when
\* verify_bearer_token succeeds on the presented token, passing on the client
\* id and identity it returned; without an Authorization header or with an
\* invalid token the answer is 401 with a WWW-Authenticate: Bearer header.
C10_MiddlewareGate ==
    ret.op = "middleware" /\ ~ret.was /\ ret.arg2 = 1 =>
       LET res == verify_bearer_token(dcr_tokens, now, ret.arg)
       IN /\ ret.out = "success" <=> (ret.arg # NULL /\ res.ok)
          /\ ret.out = "success" => ret.rclient = res.client /\ ret.roid = res.oid
          /\ ret.out # "success" => ret.http = 401 /\ ret.hdr

\* a POST to a protected path presented a token that had been issued and is
\* no longer accepted, and was answered 401
C10_Witness ==
    /\ ret.op = "middleware" /\ ~ret.was /\ ret.arg2 = 1
    /\ ret.arg # NULL /\ ret.arg # Unknown
    /\ ret.http = 401 /\ ret.hdr
    /\ \E r \in dcr_tokens : r.type = "Bearer" /\ Decrypt(r.value) = ret.arg

\* ---- the environment changes between two constructions of the service --------
\* the process is restarted with another environment and load_azure_config
\* runs again on the persisted config, with clients and tokens in the store
ConfigEnvs == {e \in Envs : e.tenant = CommonTenant}

NextConfig ==
    \/ \E e \in ConfigEnvs : SetEnv(e)
    \/ LoadAzureConfig
    \/ RegisterClient(1, NULL)
    \/ \E c \in RegisteredClients : StoreTokens(c, 1, TRUE, 1, 1)

SpecConfig == Init /\ [][NextConfig]_vars

\* the state after a load that found a persisted config while the
\* environment supplied both app-id and secret
LoadedWithOverride ==
    ret.op = "load_azure_config" /\ ret.was /\ env.app # NULL /\ env.secret # NULL

\* every token active before the load is revoked, and the persisted and the
\* in-memory config hold the app-id and secret of the environment
RevokedAndOverwritten ==
    /\ \A r \in dcr_tokens : Decrypt(r.value) \in ret.before => r.status = "revoked"
    /\ svc.app = env.app /\ svc.secret = env.secret
    /\ \A row \in dcr_azure_app : row.app = env.app /\ Decrypt(row.secret) = env.secret
    /\ dcr_azure_app # {}

\* C8 as stated: the app-id of the environment is different from the
\* persisted one
C8_AppIdDifferent ==
    LoadedWithOverride /\ env.app # ret.client => RevokedAndOverwritten

\* C8: when load_azure_config runs with a persisted config and the environment
\* supplies both app-id and secret with an app-id that differs from the
\* persisted one after surrounding whitespace is stripped from both, every
\* Bearer and refresh token active before the load is revoked afterwards and
\* the persisted and in-memory config hold the environment values.
C8_ConfigChangeRevokes ==
    LoadedWithOverride /\ Norm(env.app) # Norm(ret.client) => RevokedAndOverwritten

\* a load with another app-id in the environment revoked tokens that were active
C8_Witness ==
    /\ LoadedWithOverride /\ Norm(env.app) # Norm(ret.client)
    /\ ret.before # {}
    /\ \E r \in dcr_tokens : Decrypt(r.value) \in ret.before /\ r.status = "revoked"

\* ---- registrations -----------------------------------------------------------
\* the service is constructed with or without an upstream app configuration in
\* the environment; clients register on the service (with or without a session
\* id) and through POST /oauth/register, with redirect_uris given as a list,
\* as a bare string or not at all, and are linked to identities
RegisterEnvs == {Env0, [Env0 EXCEPT !.app = NULL], [Env0 EXCEPT !.secret = NULL]}
RegisterInputs == Redirects \cup {Bare(1), NULL}

InitRegister == \E e \in RegisterEnvs : InitWith(e)

NextRegister ==
    \/ \E r \in RegisterInputs, s \in Sessions \cup {NULL} : RegisterClient(r, s)
    \/ \E r \in RegisterInputs : DcrRegister(r)
    \/ \E c \in ClientIds, o \in ObjectIds \cup {NULL}, r \in Redirects :
          UpdateClientUser(c, o, r)

SpecRegister == InitRegister /\ [][NextRegister]_vars

\* the clients each reuse rule selects from, for a request with the given
\* session id and redirect_uris
BoundToSession(session) ==
    {c \in dcr_clients : session # NULL /\ c.session = session /\ c.app = svc.app}
LinkedFor(redirect_uris) ==
    {c \in dcr_clients : c.app = svc.app /\ c.oid # NULL
          /\ PrimaryRedirect(c.redirect) = PrimaryRedirect(redirect_uris)}
UnlinkedFor(redirect_uris) ==
    {c \in dcr_clients : c.app = svc.app /\ c.oid = NULL
          /\ PrimaryRedirect(c.redirect) = PrimaryRedirect(redirect_uris)}
IdsOf(rows) == {c.id : c \in rows}

\* a step that is a successful registration
Registered ==
    ret'.op \in {"register_client", "dcr_register"} /\ ret'.out \in {"reused", "created"}

\* C11: a successful register returns the client of the first rule that
\* matches, in this order: (1) a client bound to the given session id under
\* the same upstream app, (2) a linked client with the same upstream app and
\* primary redirect URI, (3) an unlinked client with the same upstream app and
\* primary redirect URI, (4) a newly created client without identity; a row
\* is added only when rules 1 to 3 all fail.
C11_ResolutionOrder ==
    [][Registered =>
         /\ IF BoundToSession(ret'.arg) # {}
            THEN ret'.out = "reused" /\ ret'.rclient \in IdsOf(BoundToSession(ret'.arg))
            ELSE IF LinkedFor(ret'.redirect) # {}
            THEN ret'.out = "reused" /\ ret'.rclient \in IdsOf(LinkedFor(ret'.redirect))
            ELSE IF UnlinkedFor(ret'.redirect) # {}
            THEN ret'.out = "reused" /\ ret'.rclient \in IdsOf(UnlinkedFor(ret'.redirect))
            ELSE /\ ret'.out = "created"
                 /\ ret'.rclient \notin IdsOf(dcr_clients)
                 /\ \E c \in dcr_clients' : c.id = ret'.rclient /\ c.oid = NULL
                                             /\ c.redirect = ret'.redirect
         /\ IdsOf(dcr_clients') # IdsOf(dcr_clients) =>
               /\ ret'.out = "created"
               /\ IdsOf(dcr_clients') = IdsOf(dcr_clients) \cup {ret'.rclient}
    ]_vars

\* C12: there is at most one unlinked client per upstream app and primary
\* redirect URI, so that repeating register with the same redirect_uris
\* returns the same client id.
C12_UnlinkedDeduplicated ==
    \A c, d \in dcr_clients :
       c.oid = NULL /\ d.oid = NULL /\ c.app = d.app
       /\ PrimaryRedirect(c.redirect) = PrimaryRedirect(d.redirect) => c = d

\* C17: register without a loaded upstream app configuration (app id and
\* secret) or without redirect_uris raises and leaves the clients as they
\* are; POST /oauth/register answers 400 invalid_client_metadata.
C17_RegisterRejects ==
    [][ret'.op \in {"register_client", "dcr_register"}
        /\ (svc.app = NULL \/ svc.secret = NULL \/ ret'.redirect = NULL) =>
          /\ dcr_clients' = dcr_clients
          /\ ret'.rclient = NULL /\ ret'.arg2 = NULL
          /\ ret'.op = "register_client" =>
                ret'.out = (IF svc.app = NULL \/ svc.secret = NULL
                            THEN "ConfigurationMissing" ELSE "RedirectUrisRequired")
          /\ ret'.op = "dcr_register" =>
                ret'.http = 400 /\ ret'.out = "invalid_client_metadata"
    ]_vars

\* POST /oauth/register without redirect_uris was answered 400 while clients
\* were registered
C17_Witness ==
    /\ ret.op = "dcr_register" /\ ret.redirect = NULL
    /\ ret.http = 400 /\ ret.out = "invalid_client_metadata"
    /\ dcr_clients # {}

\* C16: when update_client_user is called for an unlinked client with an
\* identity for which no client of the same upstream app and redirect URI
\* exists yet, the identity is attached to that client row in place, the
\* client id is returned unchanged and no client row is created or deleted.
C16_FirstLink ==
    [][ret'.op = "update_client_user" /\ ret'.roid # NULL
        /\ (\E c \in dcr_clients : c.id = ret'.client /\ c.oid = NULL)
        /\ (\A d \in dcr_clients :
               ~(d.oid = ret'.roid /\ PrimaryRedirect(d.redirect) = ret'.redirect)) =>
          /\ ret'.rclient = ret'.client
          /\ \E c \in dcr_clients' : c.id = ret'.client /\ c.oid = ret'.roid
          /\ IdsOf(dcr_clients') = IdsOf(dcr_clients)
    ]_vars

\* ---- codes of several clients -------------------------------------------------
\* clients with different redirect URIs register, are issued codes again and
\* again, and redeem them; the clock stands still
NextCodes ==
    \/ \E r \in Redirects : RegisterClient(r, NULL)
    \/ \E c \in ClientIds : OauthAuthorize(c, 1, NULL, "S256")
    \/ \E k \in Codes, c \in ClientIds : VerifyAuthorizationCode(k, c, 1, NULL)

SpecCodes == Init /\ [][NextCodes]_vars

CodesOf(client) ==
    {r \in dcr_tokens : r.type = "authorization_code" /\ r.client = client}

\* C18: create_authorization_code removes every authorization code of the
\* client before it inserts the new one: each client has at most one
\* authorization code stored (so at most one active), the code just issued
\* is that one, and a code that redeems is the newest code issued to its
\* client (codes carry the order in which they were minted).
C18_SingleCodeInFlight ==
    /\ \A c \in RegisteredClients : Cardinality(CodesOf(c)) <= 1
    /\ ret.op = "oauth_authorize" /\ ret.http = 302 =>
          CodesOf(ret.client) = CodeRows(dcr_tokens, ret.arg)
    /\ ret.op = "verify_authorization_code" /\ ret.out = "ok" =>
          \A r \in CodesOf(ret.client) : Decrypt(r.value) <= ret.arg
    /\ \A x \in redeemed : \A r \in CodesOf(x[2]) :
          Decrypt(r.value) > x[1] =>
             verify_authorization_code(dcr_tokens, now, x[1], x[2], x[3], x[4]).out
                = "NotFound"

\* a code that had been redeemed was presented again after a newer code was
\* issued to the same client
C18_Witness ==
    /\ ret.op = "verify_authorization_code" /\ ret.out = "NotFound"
    /\ \E r \in CodesOf(ret.client) : Decrypt(r.value) > ret.arg
    /\ ret.arg \in {x[1] : x \in redeemed}
    /\ Cardinality(RegisteredClients) = 2

\* ---- redeems with wrong inputs -------------------------------------------------
\* one client is issued codes with a PKCE challenge; redeems of the stored
\* code and of an unknown one are attempted with any client id, redirect URI
\* and verifier while the clock moves to the last instant at which a code
\* issued at 0 is valid and to the first at which it is not
RedeemVerifiers == {NULL, 1, 2}
RedeemTimes == {CodeTtl, CodeTtl + 1}
StoredCodes ==
    {Decrypt(r.value) : r \in {x \in dcr_tokens : x.type = "authorization_code"}}
       \cup {Unknown}

NextRedeem ==
    \/ \E t \in RedeemTimes : Tick(t)
    \/ RegisterClient(1, NULL)
    \/ \E c \in RegisteredClients : OauthAuthorize(c, 1, Sha256B64(1), "S256")
    \/ \E k \in StoredCodes, c \in ClientIds, r \in Redirects,
          v \in RedeemVerifiers : VerifyAuthorizationCode(k, c, r, v)

SpecRedeem == Init /\ [][NextRedeem]_vars

\* the failures of a redeem that reject the caller's inputs
InputFailures == {"ClientMismatch", "RedirectMismatch", "PKCERequired", "PKCEFailed"}

\* the issuing client presents the recorded redirect URI and a verifier
RedeemsCorrectly(row) ==
    \E v \in RedeemVerifiers :
       verify_authorization_code(dcr_tokens, now, Decrypt(row.value), row.client,
                                 row.redirect, v).out = "ok"

\* C19: a redeem that fails with ClientMismatch, RedirectMismatch,
\* PKCERequired or PKCEFailed leaves dcr_tokens as it was, and while the code
\* is active and not expired a redeem by the issuing client with the recorded
\* redirect URI and the right verifier succeeds; among the failing redeems
\* only Expired changes the row, setting its status to expired.
C19_FailedRedeemLeavesRow ==
    /\ [][ret'.op = "verify_authorization_code" =>
            /\ ret'.out \in InputFailures \cup {"NotFound", "AlreadyUsed"} =>
                  dcr_tokens' = dcr_tokens
            /\ ret'.out = "Expired" =>
                  dcr_tokens' = {IF Decrypt(r.value) = ret'.arg
                                 THEN [r EXCEPT !.status = "expired"] ELSE r
                                 : r \in dcr_tokens}
         ]_vars
    /\ [](ret.op = "verify_authorization_code" /\ ret.out \in InputFailures =>
            \A row \in CodeRows(dcr_tokens, ret.arg) :
               row.status = "active" /\ row.exp >= now => RedeemsCorrectly(row))

\* a redeem with a wrong verifier failed on a code that is still redeemable
C19_Witness ==
    /\ ret.op = "verify_authorization_code" /\ ret.out = "PKCEFailed"
    /\ \E row \in CodeRows(dcr_tokens, ret.arg) :
          row.status = "active" /\ RedeemsCorrectly(row)

\* C20: a redeem that supplies a redirect URI other than the one recorded
\* when the code was issued fails, whatever the code and the redirect URI;
\* it fails with RedirectMismatch when the code is an active, unexpired
\* code of the presenting client.
C20_RedirectMismatch ==
    ret.op = "verify_authorization_code" /\ ret.redirect # NULL =>
       \A row \in CodeRows(dcr_tokens, ret.arg) :
          row.redirect # ret.redirect =>
             /\ ret.out # "ok" /\ ret.roid = NULL
             /\ row.client = ret.client /\ row.status = "active" /\ row.exp >= now
                   => ret.out = "RedirectMismatch"

\* the issuing client presented an active code with another redirect URI
C20_Witness ==
    /\ ret.op = "verify_authorization_code" /\ ret.out = "RedirectMismatch"
    /\ \E row \in CodeRows(dcr_tokens, ret.arg) :
          row.client = ret.client /\ row.redirect # ret.redirect

\* ---- refresh rotation -------------------------------------------------------
\* a client is issued token pairs for either identity on the service and
\* presents refresh tokens to POST /oauth/token (grant_type = refresh_token),
\* the upstream refresh succeeding or failing, and tokens are presented to
\* verify_bearer_token and verify_refresh_token; the clock stands still
NextRotate ==
    \/ RegisterClient(1, NULL)
    \/ \E c \in RegisteredClients, o \in ObjectIds : StoreTokens(c, o, TRUE, 1, 1)
    \/ \E c \in ClientIds, sec \in Secrets, tok \in TokenValues, up \in BOOLEAN :
          OauthTokenRefresh(c, sec, tok, up, 1, NULL)
    \/ \E tok \in TokenValues : VerifyBearerToken(tok)
    \/ \E tok \in TokenValues, c \in ClientIds : VerifyRefreshToken(tok, c)

SpecRotate == Init /\ [][NextRotate]_vars

\* the Bearer rows of a (client, identity) pair other than the one given
OtherBearers(client, oid, token) ==
    {r \in dcr_tokens : r.type = "Bearer" /\ r.client = client /\ r.oid = oid
                        /\ Decrypt(r.value) # token}

\* C21: after POST /oauth/token answered 200 to a refresh_token grant of
\* client c presenting refresh token r, r is revoked and no longer verifies,
\* no earlier Bearer token of the (client, identity) pair is active, and the
\* returned Bearer and refresh tokens verify for c with the identity of r.
C21_RefreshRotation ==
    ret.op = "oauth_token" /\ ret.http = 200 =>
       /\ \A r \in dcr_tokens :
             r.type = "refresh" /\ Decrypt(r.value) = ret.arg => r.status = "revoked"
       /\ verify_refresh_token(dcr_tokens, dcr_clients, now, ret.arg, ret.client).out
             # "ok"
       /\ \A r \in OtherBearers(ret.client, ret.roid, ret.arg2) : r.status = "revoked"
       /\ verify_bearer_token(dcr_tokens, now, ret.arg2)
             = [ok |-> TRUE, client |-> ret.client, oid |-> ret.roid]
       /\ verify_refresh_token(dcr_tokens, dcr_clients, now, ret.arg2 + 1, ret.client)
             = [out |-> "ok", oid |-> ret.roid]

\* a refresh grant succeeded for a pair that held a Bearer token before
C21_Witness ==
    /\ ret.op = "oauth_token" /\ ret.http = 200
    /\ OtherBearers(ret.client, ret.roid, ret.arg2) # {}
    /\ \E r \in dcr_tokens : r.type = "refresh" /\ Decrypt(r.value) = ret.arg

\* ---- the order of the flow ---------------------------------------------------
\* the Bearer and refresh tokens issued by this server
LocalTokens == {r \in dcr_tokens : r.type \in {"Bearer", "refresh"}}

\* the upstream callback has completed for the code: its row holds upstream
\* tokens and an upstream identity
CallbackCompleted(tokens, code) ==
    \E row \in CodeRows(tokens, code) : row.az_access # NULL /\ row.az_uid # NULL

\* C22: POST /oauth/token issues local tokens for an authorization code only
\* after the upstream callback of that code has recorded upstream tokens and
\* an upstream identity on it, and issues them for that identity; a code
\* presented before its callback completed is not answered 200 and no local
\* token is stored.
C22_FlowOrdering ==
    /\ [](ret.op = "oauth_token" /\ ret.http = 200 =>
             /\ CallbackCompleted(dcr_tokens, ret.arg)
             /\ \A row \in CodeRows(dcr_tokens, ret.arg) : ret.roid = row.az_uid)
    /\ [](\A r \in LocalTokens : r.oid # NULL)
    /\ [][ret'.op = "oauth_token" /\ ~CallbackCompleted(dcr_tokens, ret'.arg) =>
             ret'.http # 200 /\ LocalTokens' = LocalTokens]_vars

\* the issuing client presented its code with its credentials before the
\* callback; the code was consumed and the grant refused
C22_Witness ==
    /\ ret.op = "oauth_token" /\ ret.http = 400 /\ ~ret.was
    /\ \E row \in CodeRows(dcr_tokens, ret.arg) :
          /\ row.client = ret.client /\ row.status = "expired"
          /\ row.az_access = NULL

\* ---- the profile fetch of the upstream callback ------------------------------
\* a client registers and is issued codes; callbacks arrive for stored and
\* unknown codes, one at a time, and every request to the profile endpoint
\* gives any of the responses
NextCallback ==
    \/ RegisterClient(1, NULL)
    \/ \E c \in RegisteredClients : OauthAuthorize(c, 1, NULL, "S256")
    \/ \E k \in StoredCodes \cup {NULL}, ok \in BOOLEAN, rf \in AzRefreshTokens :
          CallbackBegin(k, ok, 1, rf)
    \/ \E resp \in ProfileResponses : ProfileRequest(resp)
    \/ BackoffSleep

SpecCallback == Init /\ [][NextCallback]_vars

\* every request is answered or times out (httpx timeout = 30 s) and every
\* sleep ends
SpecCallbackLive ==
    /\ SpecCallback
    /\ WF_vars(\E resp \in ProfileResponses : ProfileRequest(resp))
    /\ WF_vars(BackoffSleep)

FetchInFlight == fetch.pc \in {"request", "sleep"}

\* the delays slept so far are 1 s, then 2 s: base delay x 2^attempt
BackoffDelays ==
    /\ Len(fetch.waits) = fetch.attempt
    /\ \A i \in 1..Len(fetch.waits) : fetch.waits[i] = RetryDelay * 2 ^ (i - 1)
    /\ fetch.pc = "done" /\ fetch.requests > 0 =>
          Len(fetch.waits) = fetch.requests - 1

RetryableHttp(resp) == resp.kind = "http" /\ resp.status \in RetryableStatuses

\* an HTTP status other than 200 and the retried ones ends the fetch with a
\* failure at once
OtherStatusFails ==
    fetch.pc = "request" /\ fetch'.last.kind = "http"
       /\ fetch'.last.status \notin RetryableStatuses \cup {200}
    => /\ fetch'.pc = "done" /\ fetch'.http = 500 /\ fetch'.out = "graph_api_error"
       /\ dcr_tokens' = dcr_tokens

\* C23 as stated: at most 3 requests, termination, delays 1 s and 2 s, a
\* retry only after a timeout or HTTP 429, 500, 502, 503, 504, and failure at
\* once on any other HTTP status.
C23_RetryOnlyTimeoutOrStatus ==
    /\ [](fetch.requests <= MaxRetries /\ BackoffDelays)
    /\ [][fetch.pc = "request" /\ fetch'.pc = "sleep" =>
             fetch'.last.kind = "timeout" \/ RetryableHttp(fetch'.last)]_vars
    /\ [][OtherStatusFails]_vars
    /\ (FetchInFlight ~> fetch.pc = "done")

\* C23 (as amended): the upstream callback makes at most 3 profile requests
\* and always terminates; it retries, after waiting base delay x 2^attempt
\* (1 s, then 2 s, no wait after the last attempt), only after a timeout,
\* another request error of the HTTP client, or HTTP 429/500/502/503/504, and
\* only before the third attempt; any other HTTP status ends the fetch with a
\* failure after that single attempt.
C23_ProfileFetchRetry ==
    /\ [](fetch.requests <= MaxRetries /\ BackoffDelays)
    /\ [][fetch.pc = "request" /\ fetch'.pc = "sleep" =>
             /\ fetch'.last.kind \in {"timeout", "request_error"}
                   \/ RetryableHttp(fetch'.last)
             /\ fetch.attempt < MaxRetries - 1]_vars
    /\ [][OtherStatusFails]_vars
    /\ (FetchInFlight ~> fetch.pc = "done")

\* the third request failed with a retried status after waits of 1 s and 2 s
C23_Witness ==
    /\ fetch.pc = "done" /\ fetch.requests = MaxRetries
    /\ fetch.waits = <<1, 2>>
    /\ RetryableHttp(fetch.last) /\ fetch.http = 500

\* the response is a 200 whose body lacks the id or the email
Incomplete(resp) ==
    resp.kind = "http" /\ resp.status = 200 /\ (resp.id = NULL \/ resp.email = NULL)

\* C24: when the profile response is successful but lacks the id or the
\* email, the callback fails at once (500 user_info_incomplete) without a
\* further attempt, and nothing is written: the authorization code receives
\* no upstream identity and no upstream tokens.
C24_ProfileIncompleteFatal ==
    /\ [][fetch.pc = "request" /\ Incomplete(fetch'.last) =>
             /\ fetch'.pc = "done" /\ fetch'.http = 500
             /\ fetch'.out = "user_info_incomplete"
             /\ ret'.op = "oauth_azure_callback" /\ ret'.http = 500
             /\ dcr_tokens' = dcr_tokens]_vars
    /\ [](fetch.pc = "done" /\ fetch.http = 302 =>
             fetch.last.id # NULL /\ fetch.last.email # NULL)
    /\ [](\A r \in dcr_tokens : r.az_access # NULL => r.az_uid # NULL)

\* the profile of a stored code came back incomplete on a retry
C24_Witness ==
    /\ fetch.pc = "done" /\ fetch.out = "user_info_incomplete"
    /\ Incomplete(fetch.last) /\ fetch.requests = 2
    /\ \E row \in CodeRows(dcr_tokens, fetch.state) :
          row.az_uid = NULL /\ row.az_access = NULL /\ row.oid = NULL

\* ---- the domain allow-list -----------------------------------------------------
\* the service is constructed with DCR_ALLOWED_DOMAINS unset, blank or
\* holding one or two entries in either letter case, with or without
\* whitespace; emails with one "@", of four domains, in either case, with or
\* without trailing whitespace, and a text without "@", are then checked
DomainNames == {"x.com", "y.com", "z.org"}
Entries == {Text(n, u, p) : n \in DomainNames \cup {""}, u \in BOOLEAN, p \in BOOLEAN}
AllowedDomainsEnvs ==
    {<<>>} \cup {<<a>> : a \in Entries} \cup {<<a, b>> : a \in Entries, b \in Entries}
Emails == {<<>>} \cup {<<Text(n, u, p)>> : n \in DomainNames \cup {"w.net"},
                                          u \in BOOLEAN, p \in BOOLEAN}

InitAllowed ==
    \E entries \in AllowedDomainsEnvs :
       /\ now = 0
       /\ nextval = 1
       /\ env = Env0
       /\ svc = [a \in {"allowed_domains"} |-> ParseAllowedDomains(entries)]
                   @@ load_azure_config(Env0, {}, {}).svc
       /\ dcr_azure_app = load_azure_config(Env0, {}, {}).table
       /\ dcr_clients = {}
       /\ dcr_tokens = {}
       /\ dcr_azure_users = {}
       /\ ret = NoRet
       /\ redeemed = {}
       /\ twice = {}
       /\ procs = [p \in ProcIds |-> Idle]
       /\ fetch = NoFetch
       /\ accounts = {}
       /\ account_delegations = {}
       /\ token_share_manager = NoShare

NextAllowed == \E e \in Emails : IsUserAllowed(e)

SpecAllowed == InitAllowed /\ [][NextAllowed]_vars

\* the domain of the email is one of the configured domains, whatever the
\* letter case and the surrounding whitespace of the email
DomainListed(user_email) ==
    /\ Len(user_email) = 1
    /\ \E d \in svc.allowed_domains : d.name = user_email[1].name

\* C25: is_user_allowed is true for every email when no allow-list is
\* configured; otherwise it is true exactly when the domain of the email,
\* compared without regard to letter case, is one of the configured domains.
C25_DomainAllowed ==
    ret.op = "is_user_allowed" =>
       ret.was = (svc.allowed_domains = {} \/ DomainListed(ret.arg))

\* an email written in capitals was allowed by a list holding its domain,
\* and the list holds y.com only: a@x.com would be denied
C25_Witness ==
    /\ ret.op = "is_user_allowed" /\ ret.was
    /\ ret.arg = <<Text("y.com", TRUE, TRUE)>>
    /\ svc.allowed_domains = {Text("y.com", FALSE, FALSE)}
    /\ ~is_user_allowed(svc.allowed_domains, <<Text("x.com", FALSE, FALSE)>>)

\* ---- delegated access ----------------------------------------------------------
\* three users; user 1 may be an admin, accounts may be inactive, user 3 may
\* have no account; up to two delegations, active or not, without expiry or
\* expiring at DelegationExpiry; the clock moves across that instant
Users == {1, 2, 3}
DelegationExpiry == 2 * TicksPerSecond
DelegationTimes == Around({DelegationExpiry - 1})

Account(u, admin, active) == [user_id |-> u, is_admin |-> admin, is_active |-> active]
Delegation(from, to, active, exp) ==
    [delegator_user_id |-> from, delegate_user_id |-> to, is_active |-> active,
     expires_at |-> exp]

AccountTables ==
    {{Account(1, ad, a1), Account(2, 0, a2)} \cup third :
        ad \in {0, 1}, a1 \in BOOLEAN, a2 \in BOOLEAN,
        third \in {{}, {Account(3, 0, TRUE)}}}
DelegationRows ==
    {Delegation(2, 1, ac, ex) : ac \in {0, 1}, ex \in {NULL, DelegationExpiry}}
    \cup {Delegation(3, 1, 1, DelegationExpiry), Delegation(1, 2, 1, NULL)}
DelegationTables ==
    {{}} \cup {{d} : d \in DelegationRows} \cup {{d, e} : d, e \in DelegationRows}

InitAccounts ==
    \E accts \in AccountTables, delegs \in DelegationTables :
       /\ now = 0
       /\ nextval = 1
       /\ env = Env0
       /\ svc = load_azure_config(Env0, {}, {}).svc
       /\ dcr_azure_app = load_azure_config(Env0, {}, {}).table
       /\ dcr_clients = {}
       /\ dcr_tokens = {}
       /\ dcr_azure_users = {}
       /\ ret = NoRet
       /\ redeemed = {}
       /\ twice = {}
       /\ procs = [p \in ProcIds |-> Idle]
       /\ fetch = NoFetch
       /\ accounts = accts
       /\ account_delegations = delegs
       /\ token_share_manager = NoShare

NextAccounts ==
    \/ \E t \in DelegationTimes : Tick(t)
    \/ \E u \in Users, ok \in BOOLEAN : GetDelegatedUserIds(u, ok)
    \/ \E a \in Users, u \in Users, ok \in BOOLEAN : IsUserAccessible(a, u, ok)
    \/ \E p \in Users \cup {NULL}, a \in Users \cup {NULL}, ok \in BOOLEAN :
          GetAuthenticatedUserId(p, a, ok)

SpecAccounts == InitAccounts /\ [][NextAccounts]_vars

\* the caller is flagged admin
IsAdmin(u) == \E a \in accounts : a.user_id = u /\ a.is_admin = 1

\* the accounts delegated to a caller: every other active account for an
\* admin, else the delegators of the active delegations to the caller that
\* have not expired
DelegatedAccountsFor(u) ==
    IF IsAdmin(u)
    THEN {a.user_id : a \in {x \in accounts : x.is_active /\ x.user_id # u}}
    ELSE {d.delegator_user_id :
             d \in {x \in account_delegations :
                       /\ x.delegate_user_id = u /\ x.is_active = 1
                       /\ ~(x.expires_at # NULL /\ x.expires_at <= now)}}

\* the set the lookup gives in the call that ret reports
LookedUp(u) == IF ret.out = "db_error" THEN {} ELSE DelegatedAccountsFor(u)

\* C26: for an authenticated caller get_authenticated_user_id returns the
\* caller when the requested user is absent or is the caller, the requested
\* user when is_user_accessible(caller, requested) holds, and the caller
\* otherwise; the user it returns is the caller or is accessible to the caller.
C26_ResolveEffectiveUser ==
    ret.op = "get_authenticated_user_id" /\ ret.client # NULL =>
       /\ ret.out # "raise"
       /\ ret.rclient =
             IF ret.arg = NULL \/ ret.arg = ret.client THEN ret.client
             ELSE IF is_user_accessible(accounts, account_delegations, now,
                                        ret.client, ret.arg, ret.out # "db_error")
                  THEN ret.arg
             ELSE ret.client
       /\ ret.rclient = ret.client \/ ret.rclient \in LookedUp(ret.client)

\* a request for another user's data was downgraded to the caller although
\* a delegation from that user exists: it has expired
C26_Witness ==
    /\ ret.op = "get_authenticated_user_id" /\ ret.out = ""
    /\ ret.client = 1 /\ ret.arg = 2 /\ ret.rclient = 1
    /\ \E d \in account_delegations :
          /\ d.delegator_user_id = 2 /\ d.delegate_user_id = 1 /\ d.is_active = 1
          /\ d.expires_at # NULL /\ d.expires_at <= now

\* C27: is_user_accessible(caller, target) is true exactly when caller =
\* target or target is in get_delegated_user_ids(caller); that set is every
\* other active account when the caller is flagged admin, otherwise the
\* accounts with an active, unexpired delegation to the caller, and it is
\* empty when the lookup fails.
C27_Accessible ==
    /\ ret.op = "is_user_accessible" =>
          ret.was = (ret.client = ret.arg \/ ret.arg \in LookedUp(ret.client))
    /\ ret.op = "get_delegated_user_ids" => ret.before = LookedUp(ret.client)

\* a caller who is not an admin reaches one account through a delegation
\* that is still valid while another delegation to the caller has expired
C27_Witness ==
    /\ ret.op = "get_delegated_user_ids" /\ ret.out = "" /\ ret.client = 1
    /\ ~IsAdmin(1) /\ ret.before = {2}
    /\ \E d \in account_delegations :
          d.delegator_user_id = 3 /\ d.is_active = 1 /\ d.expires_at <= now

\* ---- credentials handed out by register ----------------------------------------
\* the secrets a caller may present: every value minted so far or later, and
\* one that is never minted
PresentedSecrets == 1..Unknown

RedirectEnvs ==
    [app : {NULL, 1, 2}, secret : {NULL, 1}, tenant : {CommonTenant},
     redirect : {NULL, EmptyText, 1, 3}]

InitRedirect == \E e \in RedirectEnvs : InitWith(e)

NextRedirect ==
    \/ \E e \in RedirectEnvs : SetEnv(e)
    \/ LoadAzureConfig

SpecRedirect == InitRedirect /\ [][NextRedirect]_vars

\* the environment supplies a redirect URI
EnvSuppliesRedirect == Truthy(env.redirect)

\* the service has just been constructed, or load_azure_config has just run
Loaded == ret.op \in {"none", "load_azure_config"}

\* C29: after load_azure_config the redirect URI of the service is the one of
\* the environment whenever the environment supplies one, with or without a
\* persisted config and whether or not app-id or secret changed; the persisted
\* redirect URI is used only when the environment supplies none.
C29_EnvRedirectPreferred ==
    Loaded =>
       /\ EnvSuppliesRedirect => svc.redirect = env.redirect
       /\ ret.was /\ svc.redirect = ret.redirect /\ svc.redirect # env.redirect =>
             ~EnvSuppliesRedirect

\* a load found a persisted config with another redirect URI and with the
\* app-id and secret of the environment, and the service uses the URI of the
\* environment
C29_Witness ==
    /\ ret.op = "load_azure_config" /\ ret.was /\ ret.out = "loaded"
    /\ EnvSuppliesRedirect /\ ret.redirect # env.redirect
    /\ svc.redirect = env.redirect

\* ---- the upstream tokens of an identity -------------------------------------------
\* a client registers; tokens of identity 1 are stored on the service with
\* upstream tokens 1; the flow runs with upstream tokens 2 (with or without a
\* refresh token) and the refresh grant obtains upstream tokens 3 (with or
\* without a new refresh token)
IssuedCodes == StoredCodes \ {Unknown}

NextUpstream ==
    \/ RegisterClient(1, NULL)
    \/ \E c \in RegisteredClients : StoreTokens(c, 1, TRUE, 1, 1)
    \/ \E c \in RegisteredClients : OauthAuthorize(c, 1, NULL, "S256")
    \/ \E k \in IssuedCodes, o \in CallbackOutcomes, rf \in {NULL, 2} :
          OauthAzureCallback(k, o, 1, 2, rf)
    \/ \E c \in RegisteredClients, sec \in Secrets, k \in StoredCodes :
          OauthTokenCode(c, sec, k, 1, NULL)
    \/ \E c \in RegisteredClients, sec \in Secrets, tok \in TokenValues,
          up \in BOOLEAN, rf \in {NULL, 3} :
          OauthTokenRefresh(c, sec, tok, up, 3, rf)

SpecUpstream == Init /\ [][NextUpstream]_vars

\* the upstream callback has just exchanged the code for tokens and fetched
\* the profile
ExchangeSucceeded == ret.op = "oauth_azure_callback" /\ ret.http = 302
\* POST /oauth/token has just answered 200 to a refresh_token grant, after
\* the upstream refresh / to an authorization_code grant
RefreshSucceeded == ret.op = "oauth_token" /\ ret.http = 200 /\ ret.before # {}
CodeRedeemed == ret.op = "oauth_token" /\ ret.http = 200 /\ ret.before = {}

\* C30 as stated: after every successful upstream exchange or refresh there
\* is exactly one row of the identity and it holds the tokens of that event
C30_EveryExchangeRecorded ==
    ExchangeSucceeded \/ RefreshSucceeded =>
       /\ Cardinality(AzureUser(dcr_azure_users, ret.roid)) = 1
       /\ \A u \in AzureUser(dcr_azure_users, ret.roid) : \A tk \in ret.before :
             u.access_token = tk.access_token

\* C30: the row of an identity is created or overwritten by every 200 answer
\* of POST /oauth/token and by nothing else in the flow: after the redemption
\* of a code there is exactly one row of the identity recorded on the code,
\* holding the upstream tokens the callback recorded on that code; after a
\* refresh grant there is exactly one row of the identity, holding the
\* access token the upstream refresh returned and its refresh token, or the
\* previous refresh token when it returned none; the callback records the
\* tokens on the authorization code and leaves the table as it is.
C30_UpstreamIdentityRecorded ==
    [][/\ ExchangeSucceeded' =>
             /\ dcr_azure_users' = dcr_azure_users
             /\ \A r \in CodeRows(dcr_tokens', ret'.arg) : \A tk \in ret'.before :
                   r.az_access = tk.access_token /\ r.az_refresh = tk.refresh_token
       /\ CodeRedeemed' =>
             /\ Cardinality(AzureUser(dcr_azure_users', ret'.roid)) = 1
             /\ \A u \in AzureUser(dcr_azure_users', ret'.roid) :
                   \A r \in CodeRows(dcr_tokens', ret'.arg) :
                      /\ r.az_uid = ret'.roid
                      /\ u.access_token = r.az_access
                      /\ u.refresh_token = r.az_refresh
       /\ RefreshSucceeded' =>
             /\ Cardinality(AzureUser(dcr_azure_users', ret'.roid)) = 1
             /\ \A u \in AzureUser(dcr_azure_users', ret'.roid) : \A tk \in ret'.before :
                   /\ u.access_token = tk.access_token
                   /\ u.refresh_token =
                         IF tk.refresh_token # NULL THEN tk.refresh_token
                         ELSE (CHOOSE v \in AzureUser(dcr_azure_users, ret'.roid) :
                                  TRUE).refresh_token
       /\ dcr_azure_users' # dcr_azure_users =>
             ret'.op = "store_tokens" \/ CodeRedeemed' \/ RefreshSucceeded'
    ]_vars

\* a refresh grant was answered 200 without a new upstream refresh token: the
\* row of the identity, which held the upstream tokens 1, holds the new
\* access token and the refresh token it had
C30_Witness ==
    /\ RefreshSucceeded /\ ret.roid = 1
    /\ ret.before = {AzTokens(3, NULL)}
    /\ dcr_azure_users = {[object_id |-> 1, application_id |-> svc.app,
                            access_token |-> 3, refresh_token |-> 1]}

\* ---- error answers of the authorization_code grant ---------------------------
\* the authorization codes that are active and not overdue
LiveCodes == {r \in dcr_tokens : r.type = "authorization_code"
                                 /\ r.status = "active" /\ r.exp >= now}

\* C31: at POST /oauth/token every authorization_code request that ends in an
\* error answer leaves the status of every code as it was, apart from marking
\* an overdue code expired; a code is marked used only by a request that is
\* answered 200 with tokens.
C31_ErrorKeepsCode ==
    [][ret'.op = "oauth_token" /\ ret'.http # 200 =>
          \A r \in LiveCodes : r \in dcr_tokens']_vars

\* ---- what store_tokens leaves alone ---------------------------------------------
\* C33: store_tokens for the pair (c, i) changes the status of no token of
\* another client and of no token of client c that is bound to another
\* upstream identity j # i.
C33_StoreTokensFrame ==
    [][ret'.op = "store_tokens" =>
          \A r \in dcr_tokens :
             \/ r.client # ret'.client
             \/ r.oid # NULL /\ ret'.roid # NULL /\ r.oid # ret'.roid
             => r \in dcr_tokens']_vars

\* ---- what a reload leaves alone ------------------------------------------------
\* the environment of a restart: app-id (one of them with whitespace around
\* it) and secret given or not, either tenant, the redirect URI not set, set
\* to the empty text or set to a URI; tokens are stored in between
ReloadEnvs ==
    [app : {NULL, 1, 2, 1 + PadShift}, secret : {NULL, 1}, tenant : Tenants,
     redirect : {NULL, EmptyText, 1}]

NextReload ==
    \/ \E e \in ReloadEnvs : SetEnv(e)
    \/ LoadAzureConfig
    \/ RegisterClient(1, NULL)
    \/ \E c \in RegisteredClients : StoreTokens(c, 1, TRUE, 1, 1)

SpecReload == Init /\ [][NextReload]_vars

ActiveRows(tokens) == {r \in tokens : r.status = "active"}
PersistedKeys(table) == {<<row.app, Decrypt(row.secret)>> : row \in table}

\* the step is a load_azure_config that finds a persisted config
LoadsPersisted == ret'.op = "load_azure_config" /\ dcr_azure_app # {}

EnvSuppliesBoth == env.app # NULL /\ env.secret # NULL

\* the tokens that are active and the persisted app-id and secret stay
NothingRevokedOrRewritten ==
    /\ ActiveRows(dcr_tokens') = ActiveRows(dcr_tokens)
    /\ PersistedKeys(dcr_azure_app') = PersistedKeys(dcr_azure_app)

\* C34 as stated: only a difference of app-id or secret counts
C34_OnlyAppOrSecret ==
    [][LoadsPersisted
        /\ ~(EnvSuppliesBoth
             /\ \E row \in dcr_azure_app :
                   env.app # row.app \/ env.secret # Decrypt(row.secret))
        => NothingRevokedOrRewritten]_vars

\* a value of the environment differs from the persisted one once whitespace
\* around both is stripped; the redirect URI counts when the variable is set
PersistedDiffers(row) ==
    \/ Norm(env.app) # Norm(row.app)
    \/ Norm(env.secret) # Norm(Decrypt(row.secret))
    \/ Norm(env.tenant) # Norm(row.tenant)
    \/ env.redirect # NULL /\ Norm(env.redirect) # Norm(row.redirect)

\* C34: with a persisted config, load_azure_config revokes tokens and rewrites
\* the persisted config only if the environment supplies both app-id and
\* secret and the app-id, the secret, the tenant id or a redirect URI that the
\* environment sets differs from the persisted value, whitespace around the
\* values aside; in every other case the active tokens and the persisted
\* app-id and secret are unchanged, and without a persisted config no token
\* is touched.
C34_ReloadFrame ==
    [][/\ LoadsPersisted
           /\ ~(EnvSuppliesBoth /\ \E row \in dcr_azure_app : PersistedDiffers(row))
           => NothingRevokedOrRewritten /\ dcr_azure_app' = dcr_azure_app
       /\ ret'.op = "load_azure_config" /\ dcr_azure_app = {} => dcr_tokens' = dcr_tokens
    ]_vars

\* a load with the persisted app-id (whitespace around it) and secret in the
\* environment, and no redirect URI, left the tokens that were active active
C34_Witness ==
    /\ ret.op = "load_azure_config" /\ ret.was /\ ret.out = "loaded"
    /\ env.app = 1 + PadShift /\ env.secret = 1 /\ env.redirect = NULL
    /\ ret.before # {}
    /\ \A r \in dcr_tokens : Decrypt(r.value) \in ret.before => r.status = "active"

\* ---- what the revocation on a config change leaves alone -------------------------
\* tokens are stored and, an hour later, marked expired by the cleanup; a code
\* is issued; the process is restarted with another app-id and reloads
RevokeEnvs == {Env0, [Env0 EXCEPT !.app = 2]}

NextRevoke ==
    \/ Tick(BearerTtl + TicksPerSecond)
    \/ RegisterClient(1, NULL)
    \/ \E c \in RegisteredClients : OauthAuthorize(c, 1, NULL, "S256")
    \/ \E c \in RegisteredClients : StoreTokens(c, 1, TRUE, 1, 1)
    \/ CleanupStaleClients
    \/ \E e \in RevokeEnvs : SetEnv(e)
    \/ LoadAzureConfig

SpecRevoke == Init /\ [][NextRevoke]_vars

Revocable(r) == r.status = "active" /\ r.type \in {"Bearer", "refresh"}

\* C35: the revocation on a config change changes only rows of dcr_tokens
\* that are active and of type Bearer or refresh, and only their status, to
\* revoked; authorization codes, tokens already revoked or expired, client
\* rows and upstream identity rows are as they were.
C35_RevocationFrame ==
    [][ret'.op = "load_azure_config" =>
          /\ \A r \in dcr_tokens : ~Revocable(r) => r \in dcr_tokens'
          /\ \A r \in dcr_tokens :
                r \in dcr_tokens' \/ [r EXCEPT !.status = "revoked"] \in dcr_tokens'
          /\ Cardinality(dcr_tokens') = Cardinality(dcr_tokens)
          /\ dcr_clients' = dcr_clients
          /\ dcr_azure_users' = dcr_azure_users
    ]_vars

\* a load after a change of the app-id revoked the active refresh token and
\* left an active authorization code and an expired Bearer token as they were
C35_Witness ==
    /\ ret.op = "load_azure_config" /\ ret.out = "changed"
    /\ \E r \in dcr_tokens : r.type = "refresh" /\ r.status = "revoked"
                             /\ Decrypt(r.value) \in ret.before
    /\ \E r \in dcr_tokens : r.type = "authorization_code" /\ r.status = "active"
    /\ \E r \in dcr_tokens : r.type = "Bearer" /\ r.status = "expired"
    /\ dcr_clients # {} /\ dcr_azure_users # {}

\* ---- the token-sharing cache ------------------------------------------------------
\* Bearer tokens are issued to one pair, the later one revoking the earlier;
\* requests with and without an Authorization header reach two services; the
\* clock moves to the expiry of the first token
ShareServices == {"mail-query", "onenote"}
ShareTimes == {2} \cup Around({BearerTtl})

NextShare ==
    \/ \E t \in ShareTimes : Tick(t)
    \/ RegisterClient(1, NULL)
    \/ \E c \in RegisteredClients : StoreTokens(c, 1, FALSE, 1, 1)
    \/ \E ex \in BOOLEAN, m \in {"GET", "POST"}, sv \in ShareServices,
          tok \in TokenValues \cup {NULL} :
          MiddlewareImproved(ex, m, sv, tok)

SpecShare == Init /\ [][NextShare]_vars

\* the middleware has just let a request without Authorization header pass
\* on a token of the cache
AuthenticatedFromCache ==
    ret.op = "middleware_improved" /\ ~ret.hdr /\ ret.out = "success"

MonotoneTimes == {BearerTtl + TicksPerSecond}

NextMonotone ==
    \/ \E t \in MonotoneTimes : Tick(t)
    \/ RegisterClient(1, NULL)
    \/ \E c \in RegisteredClients : OauthAuthorize(c, 1, NULL, "S256")
    \/ \E k \in StoredCodes, c \in RegisteredClients : VerifyAuthorizationCode(k, c, 1, NULL)
    \/ \E c \in RegisteredClients : StoreTokens(c, 1, TRUE, 1, 1)
    \/ CleanupStaleClients
    \/ \E e \in RevokeEnvs : SetEnv(e)
    \/ LoadAzureConfig
    \/ \E c \in RegisteredClients : UpdateClientUser(c, 1, 1)

SpecMonotone == Init /\ [][NextMonotone]_vars

\* C37: in every step a token or authorization code whose status is not
\* active keeps a status that is not active, and a stored Bearer or refresh
\* value that does not verify does not verify after the step either.
C37_StatusMonotone ==
    [][/\ \A r \in dcr_tokens : r.status # "active" =>
             \A q \in dcr_tokens' : q.value = r.value => q.status # "active"
       /\ \A r \in dcr_tokens :
             r.type = "Bearer" /\ ~verify_bearer_token(dcr_tokens, now, Decrypt(r.value)).ok
                => ~verify_bearer_token(dcr_tokens', now', Decrypt(r.value)).ok
       /\ \A r \in dcr_tokens : \A c \in RegisteredClients :
             r.type = "refresh"
             /\ verify_refresh_token(dcr_tokens, dcr_clients, now,
                                     Decrypt(r.value), c).out # "ok"
                => verify_refresh_token(dcr_tokens', dcr_clients', now',
                                        Decrypt(r.value), c).out # "ok"
    ]_vars

\* tokens were stored for a pair after the app-id had changed and the pair's
\* earlier tokens had been revoked: the earlier rows are still revoked
C37_Witness ==
    /\ ret.op = "store_tokens" /\ svc.app = 2
    /\ \E r \in dcr_tokens : r.type = "Bearer" /\ r.status = "revoked"
                             /\ r.client = ret.client /\ r.oid = ret.roid
    /\ \E r \in dcr_tokens : r.type = "refresh" /\ r.status = "revoked"
    /\ \E r \in dcr_tokens : r.type = "Bearer" /\ r.status = "active"

\* ---- the three kinds of credential side by side ------------------------------
\* a client is issued authorization codes, Bearer tokens and refresh tokens;
\* every stored value, whatever its kind, is presented to
\* verify_bearer_token, verify_refresh_token and verify_authorization_code;
\* the clock stands still
AllValues == {Decrypt(r.value) : r \in dcr_tokens} \cup {Unknown}

NextKinds ==
    \/ RegisterClient(1, NULL)
    \/ \E c \in RegisteredClients : OauthAuthorize(c, 1, NULL, "S256")
    \/ \E c \in RegisteredClients : StoreTokens(c, 1, TRUE, 1, 1)
    \/ \E v \in AllValues : VerifyBearerToken(v)
    \/ \E v \in AllValues, c \in ClientIds : VerifyRefreshToken(v, c)
    \/ \E v \in AllValues, c \in ClientIds, r \in Redirects \cup {NULL} :
          VerifyAuthorizationCode(v, c, r, NULL)

SpecKinds == Init /\ [][NextKinds]_vars

\* the kinds under which a value is stored
KindsOf(v) == {r.type : r \in {x \in dcr_tokens : Decrypt(x.value) = v}}

\* C38: a value stored as a refresh token or as an authorization code is
\* never verified by verify_bearer_token, a value stored as a Bearer token or
\* as an authorization code is never verified by verify_refresh_token, and a
\* value stored as a Bearer or refresh token is never accepted by
\* verify_authorization_code
C38_KindsNotConfused ==
    /\ ret.op = "verify_bearer_token" /\ KindsOf(ret.arg) \ {"Bearer"} # {}
          => ret.out # "ok"
    /\ ret.op = "verify_refresh_token" /\ KindsOf(ret.arg) \ {"refresh"} # {}
          => ret.out # "ok"
    /\ ret.op = "verify_authorization_code"
          /\ KindsOf(ret.arg) \ {"authorization_code"} # {}
          => ret.out # "ok"

\* an active refresh token of a linked identity, presented as a Bearer token
\* while the same pair holds an active Bearer token and the client an active
\* authorization code, was turned down
C38_Witness ==
    /\ ret.op = "verify_bearer_token" /\ ret.out = "None"
    /\ \E r \in dcr_tokens :
          /\ r.type = "refresh" /\ r.status = "active" /\ r.oid # NULL
          /\ Decrypt(r.value) = ret.arg
          /\ \E b \in dcr_tokens :
                b.type = "Bearer" /\ b.status = "active" /\ b.client = r.client
          /\ \E k \in dcr_tokens :
                k.type = "authorization_code" /\ k.status = "active"
                /\ k.client = r.client

\* ---- client authentication at the token endpoint ------------------------------
\* a client registers, is issued codes that the upstream callback completes,
\* and is issued tokens; both grants of POST /oauth/token are requested with
\* any client id and with the right secret, a wrong one, or one outside
\* ASCII; the clock stands still
AuthSecrets == Secrets \cup {Unknown, NonAscii}

NextClientAuth ==
    \/ RegisterClient(1, NULL)
    \/ \E c \in RegisteredClients : OauthAuthorize(c, 1, NULL, "S256")
    \/ \E k \in IssuedCodes, o \in CallbackOutcomes : OauthAzureCallback(k, o, 1, 1, 1)
    \/ \E c \in RegisteredClients : StoreTokens(c, 1, TRUE, 1, 1)
    \/ \E c \in ClientIds, sec \in AuthSecrets, k \in Codes :
          OauthTokenCode(c, sec, k, 1, NULL)
    \/ \E c \in ClientIds, sec \in AuthSecrets, tok \in TokenValues, up \in BOOLEAN :
          OauthTokenRefresh(c, sec, tok, up, 1, NULL)

SpecClientAuth == Init /\ [][NextClientAuth]_vars

StaleAge == CleanupHours * 3600 * TicksPerSecond
CleanupTimes == Around({StaleAge}) \cup {2 * StaleAge + 2 * TicksPerSecond}

NextCleanup ==
    \/ \E t \in CleanupTimes : Tick(t)
    \/ RegisterClient(1, NULL)
    \/ \E c \in RegisteredClients : OauthAuthorize(c, 1, NULL, "S256")
    \/ \E k \in IssuedCodes, c \in RegisteredClients : VerifyAuthorizationCode(k, c, 1, NULL)
    \/ \E c \in RegisteredClients, rf \in BOOLEAN : StoreTokens(c, 1, rf, 1, 1)
    \/ CleanupStaleClients

SpecCleanup == Init /\ [][NextCleanup]_vars

\* an active client that is linked to an identity or that a token or code
\* with status active refers to
InUse(c) ==
    /\ c.status = "active"
    /\ \/ c.oid # NULL
       \/ \E r \in dcr_tokens : r.client = c.id /\ r.status = "active"

====
